---- MODULE Spec2Model ----
(***************************************************************************)
(* Serial-TUN bridge (src/tools/serial_tun_bridge.py) as a state machine.  *)
(*                                                                         *)
(* One Python thread executes SerialTunBridge.run(); its position is pc.   *)
(* Signal handlers (lambda s, f: self.cleanup()) run in that same thread,  *)
(* between two of its steps; each running handler is a frame of hstack and *)
(* the main thread only moves when hstack is empty.                        *)
(*                                                                         *)
(* Object references: 0 is None, TunRef (-1) is the TUN device object, a   *)
(* positive number n is the n-th socket object connect_to_serial created.  *)
(* Byte strings are sequences of numbers 0..255.                           *)
(*                                                                         *)
(* The HTTP proxy (src/tools/http_proxy.py) is a second state machine:     *)
(* ProxyHandler.do_GET serving one GET after the other, its position hpc.  *)
(* It shares nothing with the bridge; each machine stands still while the  *)
(* other one runs.                                                         *)
(***************************************************************************)
EXTENDS Integers, Sequences, FiniteSets, TLC

\* ------------------------------------------------------------- constants

MAX_FRAME_SIZE == 1500
ETH_HEADER_SIZE == 14
HOST_MAC == <<2, 0, 0, 0, 0, 1>>
ESP32_MAC == <<2, 0, 0, 0, 0, 2>>
ETH_TYPE_IP == 2048

\* http_proxy.py: retries after the first attempt, and the first wait, 0.5 s,
\* in milliseconds.
MAX_RETRIES == 5
INITIAL_BACKOFF == 500

\* ---------------------------------------------------------------- bounds

\* Events of the environment in one execution: a frame sent by the peer, its
\* partial arrival, the peer's close, a packet from the kernel, a failure of a
\* system call, a signal.
MaxEvents == 3
\* The same, in the executions over the long frames (SpecData).
MaxDataEvents == 2
\* Refused connects counted in connect_to_serial's attempt; further ones leave
\* it there.
MaxAttempts == 2
\* GET requests the proxy serves in one execution.
MaxRequests == 2

None == 0
TunRef == 0 - 1

\* --------------------------------------------------------- pure functions

\* struct.pack('>H', n): two bytes, big-endian (n < 65536 wherever it is used).
PackH(n) == <<(n \div 256) % 256, n % 256>>

\* struct.unpack('<H', b)[0]: the little-endian reading.
UnpackHLittle(b) == b[2] * 256 + b[1]

\* struct.unpack('>H', b)[0]
UnpackH(b) == b[1] * 256 + b[2]

\* A length check that lets a zero length through.
InvalidLenNoZero(frame_len) == frame_len > MAX_FRAME_SIZE + ETH_HEADER_SIZE

\* The frame-length check of serial_to_tun, line 188.
InvalidLen(frame_len) == frame_len = 0 \/ frame_len > MAX_FRAME_SIZE + ETH_HEADER_SIZE

\* eth_header = ESP32_MAC + HOST_MAC + struct.pack('>H', ETH_TYPE_IP)
EthHeader == ESP32_MAC \o HOST_MAC \o PackH(ETH_TYPE_IP)

\* eth_frame = eth_header + ip_packet
AddHeader(ip_packet) == EthHeader \o ip_packet

\* eth_frame[ETH_HEADER_SIZE - 1:]: a slice one byte early.
StripHeaderShort(eth_frame) == SubSeq(eth_frame, ETH_HEADER_SIZE, Len(eth_frame))

\* eth_frame[ETH_HEADER_SIZE:]
StripHeader(eth_frame) == SubSeq(eth_frame, ETH_HEADER_SIZE + 1, Len(eth_frame))

\* The bytes of one frame on the wire: the length, 2 bytes big-endian, then
\* the frame (lines 13-15; sendall(len_data), sendall(eth_frame)).
Encode(payload) == PackH(Len(payload)) \o payload

\* b[:n] and b[n:]
Take(b, n) == SubSeq(b, 1, n)
Drop(b, n) == SubSeq(b, n + 1, Len(b))

Min(a, b) == IF a < b THEN a ELSE b

\* Test data: len bytes, byte i being (i + seed) mod 256.
Pat(len, seed) == [i \in 1..len |-> (i + seed) % 256]

\* What the peer puts in its n-th frame of length len. An oversized frame is
\* filled with one byte, 5: read as a length prefix, two of them say 1285.
PeerPayload(len, n) ==
    IF len > MAX_FRAME_SIZE + ETH_HEADER_SIZE THEN [i \in 1..len |-> 5] ELSE Pat(len, n)

\* Frame lengths the peer sends and packet lengths the kernel hands over.
PeerLens == {0, 13, 14, 20, MAX_FRAME_SIZE, MAX_FRAME_SIZE + ETH_HEADER_SIZE,
             MAX_FRAME_SIZE + ETH_HEADER_SIZE + 1}
TunLens == {0, 1, ETH_HEADER_SIZE, MAX_FRAME_SIZE, MAX_FRAME_SIZE + 1}
\* The same, for the executions with failures and signals.
FewPeerLens == {0, 13, 20}
FewTunLens == {0, 1}
\* Sizes of a partial delivery.
SplitSizes == {1, 2, 9}

\* ------------------------------------------------------------------ state

VARIABLES
    \* fields of SerialTunBridge
    serial_sock, tun, running,
    \* the main thread: position, locals, and the signal handlers running on it
    pc, hstack, sock, attempt, rlist, readable, ret,
    frame_len, eth_frame, ip_packet,
    \* the process: exit status of run(), the backend found at import
    exit, HAVE_PYTUN,
    \* operating system: open sockets, the TUN file handle and interface
    nConn, openSocks, tunFd, tunIf,
    \* the serial connection: bytes sent by the peer and not yet in the socket
    \* buffer, bytes in the socket buffer, whether the peer closed, bytes the
    \* bridge sent
    wire, rx, peerFin, tx,
    \* the TUN device: packets waiting to be read, packets written
    tunRq, tunW,
    \* history: what the peer sent on this connection, bytes and frames the
    \* bridge consumed of it, how the last relay operation ended, packets read
    \* from the TUN device, the last endpoint failure, counters
    sent, nRead, nDone, got, outcome, tunIn, fail, sigAt,
    nCreate, nDown, nTunClose, nDel, nSockClose, nCleanup,
    nSig, nEv,
    \* do_GET of the proxy: position, locals, the upstream response object
    hpc, retry_count, backoff, last_error, response,
    \* the proxy's client: what reached it for this request (status line with
    \* headers, body), whether it has gone away
    client, clientGone,
    \* history of this request: calls of urlopen, sleeps; requests begun
    attempts, waits, nGet

vars == <<serial_sock, tun, running, pc, hstack, sock, attempt, rlist, readable,
          ret, frame_len, eth_frame, ip_packet, exit, HAVE_PYTUN, nConn,
          openSocks, tunFd, tunIf, wire, rx, peerFin, tx, tunRq, tunW, sent,
          nRead, nDone, got, outcome, tunIn, fail, sigAt, nCreate, nDown, nTunClose,
          nDel, nSockClose, nCleanup, nSig, nEv, hpc, retry_count, backoff,
          last_error, response, client, clientGone, attempts, waits, nGet>>


\* __init__: no socket, no device, not running; run() not yet entered. The
\* proxy waits for its first request.
Init ==
    /\ serial_sock = None /\ tun = None /\ running = FALSE
    /\ pc = "r_305" /\ hstack = <<>>
    /\ sock = None /\ attempt = 0 /\ rlist = <<None, None>> /\ readable = <<>>
    /\ ret = FALSE
    /\ frame_len = 0 /\ eth_frame = <<>> /\ ip_packet = <<>>
    /\ exit = "none" /\ HAVE_PYTUN \in BOOLEAN
    /\ nConn = 0 /\ openSocks = {} /\ tunFd = "none" /\ tunIf = "absent"
    /\ wire = <<>> /\ rx = <<>> /\ peerFin = FALSE /\ tx = <<>>
    /\ tunRq = <<>> /\ tunW = <<>>
    /\ sent = <<>> /\ nRead = 0 /\ nDone = 0 /\ got = <<>> /\ outcome = "none" /\ tunIn = <<>>
    /\ fail = "none" /\ sigAt = "none"
    /\ nCreate = 0 /\ nDown = 0 /\ nTunClose = 0 /\ nDel = 0 /\ nSockClose = 0
    /\ nCleanup = 0 /\ nSig = 0 /\ nEv = 0
    /\ hpc = "idle" /\ retry_count = 0 /\ backoff = INITIAL_BACKOFF
    /\ last_error = "none" /\ response = "none"
    /\ client = <<>> /\ clientGone = FALSE
    /\ attempts = 0 /\ waits = <<>> /\ nGet = 0


\* ---------------------------------------------------------------- helpers

\* The socket behind self.serial_sock can be read and written.
SockUsable == serial_sock # None /\ serial_sock \in openSocks

\* The device behind self.tun can be read and written.
TunUsable == tun # None /\ tunFd = "open"

\* Where an exception raised at position p of the main thread is caught:
\* serial_to_tun and tun_to_serial return False (lines 231-233, 278-280), the
\* try around close() passes (338-341), connect_to_serial sleeps and retries
\* (173-176), create_tun_device returns None (126-128, 84-86, 96-99); anywhere
\* else it leaves run().
ExcPc(p) ==
    CASE p \in {"s2t_182", "s2t_195", "s2t_227"} -> "r_336"
      [] p \in {"t2s_239", "t2s_271", "t2s_274"} -> "r_346"
      [] p = "r_339" -> "r_342"
      [] p = "cs_163" -> "cs_172"
      [] p \in {"ct_119", "ct_120", "ct_123", "ct_125", "cm_83", "cm_95"} -> "r_309"
      [] OTHER -> "done"

\* run(), line 309: the branch on create_tun_device's result.
CreatedTarget(created) == IF created THEN "r_313" ELSE "done"

\* run(), line 316: the outer loop's test.
OuterTarget(run) == IF run THEN "cs_163" ELSE "r_355"

\* run(), line 336: a False from serial_to_tun leads to the close at 339.
SerialResultTarget(ok) == IF ok THEN "r_334" ELSE "r_339"

\* run(), lines 346-349: a False from tun_to_serial clears running and breaks.
TunResultRunning(ok, run) == IF ok THEN run ELSE FALSE
TunResultTarget(ok) == IF ok THEN "r_334" ELSE "r_352"

\* A loop that goes on to the next ready handle after the socket is gone.
AfterBreakContinue(rd) == rd

\* run(), line 343: break leaves the for loop, whatever else select() had
\* reported ready.
AfterBreak(rd) == <<>>

\* A test that takes every socket for none.
ConnectedTargetNever(s) == "r_320"

\* run(), line 319: without a socket, the retry branch.
ConnectedTarget(s) == IF s = None THEN "r_320" ELSE "r_329"

\* run(), line 329: the inner loop's test.
InnerTarget(run) == IF run THEN "r_331" ELSE "r_316"

\* A loop that stays in the inner loop whatever became of the socket.
CheckSockTargetStay(s) == "r_329"

\* run(), line 352: without a socket, back to the outer loop.
CheckSockTarget(s) == IF s = None THEN "r_316" ELSE "r_329"

\* run(), lines 335 and 345: which relay operation r selects.
Dispatch(x, s, t) == IF x = s THEN "s2t_182" ELSE IF x = t THEN "t2s_239" ELSE "r_334"

\* select() accepts rl: no None in it, no closed handle.
SelectOk(rl) == /\ rl[1] # None /\ rl[1] \in openSocks
                /\ rl[2] # None /\ tunFd = "open"

\* What select() returns: the socket if it has bytes or the peer's close to
\* report, the TUN device if a packet waits; both empty at the timeout.
Ready(rl) ==
    (IF rx # <<>> \/ (peerFin /\ wire = <<>>) THEN <<rl[1]>> ELSE <<>>)
    \o (IF tunRq # <<>> THEN <<rl[2]>> ELSE <<>>)

\* A recv that ignores its size argument and returns all that is buffered.
ChunkLenWhole(flen, frame, buf) == Len(buf)

\* recv(frame_len - len(eth_frame)): at most what is asked, at most what is there.
ChunkLen(flen, frame, buf) == Min(flen - Len(frame), Len(buf))

\* A header check off by one.
TooShortOffByOne(flen) == flen < ETH_HEADER_SIZE - 1

\* serial_to_tun, line 203: too short for an Ethernet header.
TooShort(flen) == flen < ETH_HEADER_SIZE

\* A length prefix that counts the IP packet and not the Ethernet header.
LenPrefixOfPacket(frame) == PackH(Len(frame) - ETH_HEADER_SIZE)

\* tun_to_serial, line 270: len_data = struct.pack('>H', frame_len).
LenPrefix(frame) == PackH(Len(frame))

\* A cleanup that leaves the socket alone.
CleanupSockTargetSkip(s) == "c_292"

\* A cleanup that closes the socket without looking at the field.
CleanupSockTargetAlways(s) == "c_289"

\* cleanup, line 288: if self.serial_sock.
CleanupSockTarget(s) == IF s # None THEN "c_289" ELSE "c_292"

\* A cleanup that forgets the device and only drops the reference.
CleanupTunTargetSkip(pytun) == "c_300"

\* cleanup, lines 293-297: the teardown of the backend in use.
CleanupTunTarget(pytun) == IF pytun THEN "c_294" ELSE "c_297"

\* The bridge's state (spec section 3) at position p of run().
InitPcs == {"r_305", "ct_119", "ct_120", "ct_123", "ct_125", "cm_83", "cm_95",
            "cm_102", "cm_106", "ct_153", "r_309", "r_313"}
ConnectPcs == {"r_316", "cs_163", "cs_172", "r_318", "r_319", "r_320"}
BridgingPcs == {"r_329", "r_331", "r_332", "r_334", "s2t_182", "s2t_195", "s2t_227",
                "r_336", "r_339", "r_342", "t2s_239", "t2s_271", "t2s_274", "r_346",
                "r_352"}
ShutdownPcs == {"r_355", "r_355w", "r_356", "done"}
StateAt(p) ==
    CASE p \in InitPcs -> "Initializing"
      [] p \in ConnectPcs -> IF nConn = 0 THEN "ConnectingSerial" ELSE "ReconnectingSerial"
      [] p \in BridgingPcs -> "Bridging"
      [] OTHER -> "ShuttingDown"

\* Where the main thread is when a signal arrives.
SigPlace == pc


\* ---------------------------------------------------------------- actions

\* run(), lines 305-306: install the handlers, then call create_tun_device
\* (309).
InstallHandlers ==
    /\ pc = "r_305"
    /\ hstack = <<>>
    /\ pc' = IF HAVE_PYTUN THEN "ct_119" ELSE "cm_83"
    /\ UNCHANGED <<serial_sock, tun, running, hstack, sock, attempt, rlist,
                   readable, ret, frame_len, eth_frame, ip_packet, exit,
                   HAVE_PYTUN, nConn, openSocks, tunFd, tunIf, wire, rx,
                   peerFin, tx, tunRq, tunW, sent, nRead, nDone, got,
                   outcome, tunIn, fail, sigAt, nCreate, nDown, nTunClose,
                   nDel, nSockClose, nCleanup, nSig, nEv, hpc, retry_count,
                   backoff, last_error, response, client, clientGone,
                   attempts, waits, nGet>>

\* create_tun_device, pytun backend, line 119: self.tun = TunTapDevice(...).
PytunOpen ==
    /\ pc = "ct_119"
    /\ hstack = <<>>
    /\ tunFd' = "open"
    /\ tunIf' = "down"
    /\ nCreate' = nCreate + 1
    /\ tun' = TunRef
    /\ pc' = "ct_120"
    /\ UNCHANGED <<serial_sock, running, hstack, sock, attempt, rlist,
                   readable, ret, frame_len, eth_frame, ip_packet, exit,
                   HAVE_PYTUN, nConn, openSocks, wire, rx, peerFin, tx,
                   tunRq, tunW, sent, nRead, nDone, got, outcome, tunIn,
                   fail, sigAt, nDown, nTunClose, nDel, nSockClose, nCleanup,
                   nSig, nEv, hpc, retry_count, backoff, last_error,
                   response, client, clientGone, attempts, waits, nGet>>

\* create_tun_device, lines 119 and 126-128: TunTapDevice raises: return None.
PytunOpenFails ==
    /\ pc = "ct_119"
    /\ hstack = <<>>
    /\ nEv < MaxEvents
    /\ nEv' = nEv + 1
    /\ fail' = "tun_create"
    /\ ret' = FALSE
    /\ pc' = "r_309"
    /\ UNCHANGED <<serial_sock, tun, running, hstack, sock, attempt, rlist,
                   readable, frame_len, eth_frame, ip_packet, exit,
                   HAVE_PYTUN, nConn, openSocks, tunFd, tunIf, wire, rx,
                   peerFin, tx, tunRq, tunW, sent, nRead, nDone, got,
                   outcome, tunIn, sigAt, nCreate, nDown, nTunClose, nDel,
                   nSockClose, nCleanup, nSig, hpc, retry_count, backoff,
                   last_error, response, client, clientGone, attempts, waits,
                   nGet>>

\* create_tun_device, lines 120-122: addr, netmask, mtu.
PytunConfigure ==
    /\ pc = "ct_120"
    /\ tun # None
    /\ hstack = <<>>
    /\ pc' = "ct_123"
    /\ UNCHANGED <<serial_sock, tun, running, hstack, sock, attempt, rlist,
                   readable, ret, frame_len, eth_frame, ip_packet, exit,
                   HAVE_PYTUN, nConn, openSocks, tunFd, tunIf, wire, rx,
                   peerFin, tx, tunRq, tunW, sent, nRead, nDone, got,
                   outcome, tunIn, fail, sigAt, nCreate, nDown, nTunClose,
                   nDel, nSockClose, nCleanup, nSig, nEv, hpc, retry_count,
                   backoff, last_error, response, client, clientGone,
                   attempts, waits, nGet>>

\* create_tun_device, lines 120-122 and 126-128: a setter raises: return None
\* (self.tun keeps the device).
PytunConfigureFails ==
    /\ pc = "ct_120"
    /\ tun # None
    /\ hstack = <<>>
    /\ nEv < MaxEvents
    /\ nEv' = nEv + 1
    /\ fail' = "tun_create"
    /\ ret' = FALSE
    /\ pc' = "r_309"
    /\ UNCHANGED <<serial_sock, tun, running, hstack, sock, attempt, rlist,
                   readable, frame_len, eth_frame, ip_packet, exit,
                   HAVE_PYTUN, nConn, openSocks, tunFd, tunIf, wire, rx,
                   peerFin, tx, tunRq, tunW, sent, nRead, nDone, got,
                   outcome, tunIn, sigAt, nCreate, nDown, nTunClose, nDel,
                   nSockClose, nCleanup, nSig, hpc, retry_count, backoff,
                   last_error, response, client, clientGone, attempts, waits,
                   nGet>>

\* create_tun_device, line 123: self.tun.up().
PytunUp ==
    /\ pc = "ct_123"
    /\ TunUsable
    /\ hstack = <<>>
    /\ tunIf' = "up"
    /\ pc' = "ct_125"
    /\ UNCHANGED <<serial_sock, tun, running, hstack, sock, attempt, rlist,
                   readable, ret, frame_len, eth_frame, ip_packet, exit,
                   HAVE_PYTUN, nConn, openSocks, tunFd, wire, rx, peerFin,
                   tx, tunRq, tunW, sent, nRead, nDone, got, outcome, tunIn,
                   fail, sigAt, nCreate, nDown, nTunClose, nDel, nSockClose,
                   nCleanup, nSig, nEv, hpc, retry_count, backoff,
                   last_error, response, client, clientGone, attempts, waits,
                   nGet>>

\* create_tun_device, lines 123 and 126-128: up() raises: return None.
PytunUpFails ==
    /\ pc = "ct_123"
    /\ tun # None
    /\ hstack = <<>>
    /\ nEv < MaxEvents
    /\ nEv' = nEv + 1
    /\ fail' = "tun_create"
    /\ ret' = FALSE
    /\ pc' = "r_309"
    /\ UNCHANGED <<serial_sock, tun, running, hstack, sock, attempt, rlist,
                   readable, frame_len, eth_frame, ip_packet, exit,
                   HAVE_PYTUN, nConn, openSocks, tunFd, tunIf, wire, rx,
                   peerFin, tx, tunRq, tunW, sent, nRead, nDone, got,
                   outcome, tunIn, sigAt, nCreate, nDown, nTunClose, nDel,
                   nSockClose, nCleanup, nSig, hpc, retry_count, backoff,
                   last_error, response, client, clientGone, attempts, waits,
                   nGet>>

\* create_tun_device, lines 120-123 and 126-128: self.tun is None by now, or
\* its device closed: the exception is caught: return None.
PytunOnDeadHandle ==
    /\ \/ pc = "ct_120" /\ tun = None
       \/ pc = "ct_123" /\ ~TunUsable
    /\ hstack = <<>>
    /\ ret' = FALSE
    /\ pc' = "r_309"
    /\ UNCHANGED <<serial_sock, tun, running, hstack, sock, attempt, rlist,
                   readable, frame_len, eth_frame, ip_packet, exit,
                   HAVE_PYTUN, nConn, openSocks, tunFd, tunIf, wire, rx,
                   peerFin, tx, tunRq, tunW, sent, nRead, nDone, got,
                   outcome, tunIn, fail, sigAt, nCreate, nDown, nTunClose,
                   nDel, nSockClose, nCleanup, nSig, nEv, hpc, retry_count,
                   backoff, last_error, response, client, clientGone,
                   attempts, waits, nGet>>

\* create_tun_device, line 125: return self.tun (truthy unless it is None).
PytunReturn ==
    /\ pc = "ct_125"
    /\ hstack = <<>>
    /\ ret' = (tun # None)
    /\ pc' = "r_309"
    /\ UNCHANGED <<serial_sock, tun, running, hstack, sock, attempt, rlist,
                   readable, frame_len, eth_frame, ip_packet, exit,
                   HAVE_PYTUN, nConn, openSocks, tunFd, tunIf, wire, rx,
                   peerFin, tx, tunRq, tunW, sent, nRead, nDone, got,
                   outcome, tunIn, fail, sigAt, nCreate, nDown, nTunClose,
                   nDel, nSockClose, nCleanup, nSig, nEv, hpc, retry_count,
                   backoff, last_error, response, client, clientGone,
                   attempts, waits, nGet>>

\* create_tun_device_manual, lines 82-83: os.open('/dev/net/tun').
ManualOpen ==
    /\ pc = "cm_83"
    /\ hstack = <<>>
    /\ tunFd' = "open"
    /\ pc' = "cm_95"
    /\ UNCHANGED <<serial_sock, tun, running, hstack, sock, attempt, rlist,
                   readable, ret, frame_len, eth_frame, ip_packet, exit,
                   HAVE_PYTUN, nConn, openSocks, tunIf, wire, rx, peerFin,
                   tx, tunRq, tunW, sent, nRead, nDone, got, outcome, tunIn,
                   fail, sigAt, nCreate, nDown, nTunClose, nDel, nSockClose,
                   nCleanup, nSig, nEv, hpc, retry_count, backoff,
                   last_error, response, client, clientGone, attempts, waits,
                   nGet>>

\* create_tun_device_manual, lines 84-86: os.open raises: return None.
ManualOpenFails ==
    /\ pc = "cm_83"
    /\ hstack = <<>>
    /\ nEv < MaxEvents
    /\ nEv' = nEv + 1
    /\ fail' = "tun_create"
    /\ ret' = FALSE
    /\ pc' = "r_309"
    /\ UNCHANGED <<serial_sock, tun, running, hstack, sock, attempt, rlist,
                   readable, frame_len, eth_frame, ip_packet, exit,
                   HAVE_PYTUN, nConn, openSocks, tunFd, tunIf, wire, rx,
                   peerFin, tx, tunRq, tunW, sent, nRead, nDone, got,
                   outcome, tunIn, sigAt, nCreate, nDown, nTunClose, nDel,
                   nSockClose, nCleanup, nSig, hpc, retry_count, backoff,
                   last_error, response, client, clientGone, attempts, waits,
                   nGet>>

\* create_tun_device_manual, lines 93-95: ioctl(TUNSETIFF) creates the
\* interface.
ManualIoctl ==
    /\ pc = "cm_95"
    /\ hstack = <<>>
    /\ tunIf' = "down"
    /\ nCreate' = nCreate + 1
    /\ pc' = "cm_102"
    /\ UNCHANGED <<serial_sock, tun, running, hstack, sock, attempt, rlist,
                   readable, ret, frame_len, eth_frame, ip_packet, exit,
                   HAVE_PYTUN, nConn, openSocks, tunFd, wire, rx, peerFin,
                   tx, tunRq, tunW, sent, nRead, nDone, got, outcome, tunIn,
                   fail, sigAt, nDown, nTunClose, nDel, nSockClose, nCleanup,
                   nSig, nEv, hpc, retry_count, backoff, last_error,
                   response, client, clientGone, attempts, waits, nGet>>

\* create_tun_device_manual, lines 96-99: the ioctl raises: close the fd,
\* return None.
ManualIoctlFails ==
    /\ pc = "cm_95"
    /\ hstack = <<>>
    /\ nEv < MaxEvents
    /\ nEv' = nEv + 1
    /\ fail' = "tun_create"
    /\ tunFd' = "closed"
    /\ ret' = FALSE
    /\ pc' = "r_309"
    /\ UNCHANGED <<serial_sock, tun, running, hstack, sock, attempt, rlist,
                   readable, frame_len, eth_frame, ip_packet, exit,
                   HAVE_PYTUN, nConn, openSocks, tunIf, wire, rx, peerFin,
                   tx, tunRq, tunW, sent, nRead, nDone, got, outcome, tunIn,
                   sigAt, nCreate, nDown, nTunClose, nDel, nSockClose,
                   nCleanup, nSig, hpc, retry_count, backoff, last_error,
                   response, client, clientGone, attempts, waits, nGet>>

\* create_tun_device_manual, line 102: ip addr add.
ManualAddr ==
    /\ pc = "cm_102"
    /\ hstack = <<>>
    /\ pc' = "cm_106"
    /\ UNCHANGED <<serial_sock, tun, running, hstack, sock, attempt, rlist,
                   readable, ret, frame_len, eth_frame, ip_packet, exit,
                   HAVE_PYTUN, nConn, openSocks, tunFd, tunIf, wire, rx,
                   peerFin, tx, tunRq, tunW, sent, nRead, nDone, got,
                   outcome, tunIn, fail, sigAt, nCreate, nDown, nTunClose,
                   nDel, nSockClose, nCleanup, nSig, nEv, hpc, retry_count,
                   backoff, last_error, response, client, clientGone,
                   attempts, waits, nGet>>

\* create_tun_device_manual, lines 102-104: ip addr add fails; that is only
\* logged.
ManualAddrFails ==
    /\ pc = "cm_102"
    /\ hstack = <<>>
    /\ nEv < MaxEvents
    /\ nEv' = nEv + 1
    /\ fail' = "tun_addr"
    /\ pc' = "cm_106"
    /\ UNCHANGED <<serial_sock, tun, running, hstack, sock, attempt, rlist,
                   readable, ret, frame_len, eth_frame, ip_packet, exit,
                   HAVE_PYTUN, nConn, openSocks, tunFd, tunIf, wire, rx,
                   peerFin, tx, tunRq, tunW, sent, nRead, nDone, got,
                   outcome, tunIn, sigAt, nCreate, nDown, nTunClose, nDel,
                   nSockClose, nCleanup, nSig, hpc, retry_count, backoff,
                   last_error, response, client, clientGone, attempts, waits,
                   nGet>>

\* create_tun_device_manual, lines 106, 112-113: ip link set up; return the
\* fd.
ManualUp ==
    /\ pc = "cm_106"
    /\ hstack = <<>>
    /\ tunIf' = "up"
    /\ pc' = "ct_153"
    /\ UNCHANGED <<serial_sock, tun, running, hstack, sock, attempt, rlist,
                   readable, ret, frame_len, eth_frame, ip_packet, exit,
                   HAVE_PYTUN, nConn, openSocks, tunFd, wire, rx, peerFin,
                   tx, tunRq, tunW, sent, nRead, nDone, got, outcome, tunIn,
                   fail, sigAt, nCreate, nDown, nTunClose, nDel, nSockClose,
                   nCleanup, nSig, nEv, hpc, retry_count, backoff,
                   last_error, response, client, clientGone, attempts, waits,
                   nGet>>

\* create_tun_device_manual, lines 106-110: ip link set up fails: close the
\* fd, return None.
ManualUpFails ==
    /\ pc = "cm_106"
    /\ hstack = <<>>
    /\ nEv < MaxEvents
    /\ nEv' = nEv + 1
    /\ fail' = "tun_create"
    /\ tunFd' = "closed"
    /\ tunIf' = "absent"
    /\ ret' = FALSE
    /\ pc' = "r_309"
    /\ UNCHANGED <<serial_sock, tun, running, hstack, sock, attempt, rlist,
                   readable, frame_len, eth_frame, ip_packet, exit,
                   HAVE_PYTUN, nConn, openSocks, wire, rx, peerFin, tx,
                   tunRq, tunW, sent, nRead, nDone, got, outcome, tunIn,
                   sigAt, nCreate, nDown, nTunClose, nDel, nSockClose,
                   nCleanup, nSig, hpc, retry_count, backoff, last_error,
                   response, client, clientGone, attempts, waits, nGet>>

\* create_tun_device, lines 131-154: wrap the fd; self.tun =
\* TunDevice(tun_fd); return it.
ManualWrap ==
    /\ pc = "ct_153"
    /\ hstack = <<>>
    /\ tun' = TunRef
    /\ ret' = TRUE
    /\ pc' = "r_309"
    /\ UNCHANGED <<serial_sock, running, hstack, sock, attempt, rlist,
                   readable, frame_len, eth_frame, ip_packet, exit,
                   HAVE_PYTUN, nConn, openSocks, tunFd, tunIf, wire, rx,
                   peerFin, tx, tunRq, tunW, sent, nRead, nDone, got,
                   outcome, tunIn, fail, sigAt, nCreate, nDown, nTunClose,
                   nDel, nSockClose, nCleanup, nSig, nEv, hpc, retry_count,
                   backoff, last_error, response, client, clientGone,
                   attempts, waits, nGet>>

\* run(), lines 309-311: if not self.create_tun_device(): return 1.
CheckCreated ==
    /\ pc = "r_309"
    /\ hstack = <<>>
    /\ pc' = CreatedTarget(ret)
    /\ exit' = IF CreatedTarget(ret) = "done" THEN "1" ELSE exit
    /\ UNCHANGED <<serial_sock, tun, running, hstack, sock, attempt, rlist,
                   readable, ret, frame_len, eth_frame, ip_packet,
                   HAVE_PYTUN, nConn, openSocks, tunFd, tunIf, wire, rx,
                   peerFin, tx, tunRq, tunW, sent, nRead, nDone, got,
                   outcome, tunIn, fail, sigAt, nCreate, nDown, nTunClose,
                   nDel, nSockClose, nCleanup, nSig, nEv, hpc, retry_count,
                   backoff, last_error, response, client, clientGone,
                   attempts, waits, nGet>>

\* run(), line 313: self.running = True.
SetRunning ==
    /\ pc = "r_313"
    /\ hstack = <<>>
    /\ running' = TRUE
    /\ pc' = "r_316"
    /\ UNCHANGED <<serial_sock, tun, hstack, sock, attempt, rlist, readable,
                   ret, frame_len, eth_frame, ip_packet, exit, HAVE_PYTUN,
                   nConn, openSocks, tunFd, tunIf, wire, rx, peerFin, tx,
                   tunRq, tunW, sent, nRead, nDone, got, outcome, tunIn,
                   fail, sigAt, nCreate, nDown, nTunClose, nDel, nSockClose,
                   nCleanup, nSig, nEv, hpc, retry_count, backoff,
                   last_error, response, client, clientGone, attempts, waits,
                   nGet>>

\* run(), line 316: while self.running (outer loop); after it, line 355.
OuterLoop ==
    /\ pc = "r_316"
    /\ hstack = <<>>
    /\ pc' = OuterTarget(running)
    /\ UNCHANGED <<serial_sock, tun, running, hstack, sock, attempt, rlist,
                   readable, ret, frame_len, eth_frame, ip_packet, exit,
                   HAVE_PYTUN, nConn, openSocks, tunFd, tunIf, wire, rx,
                   peerFin, tx, tunRq, tunW, sent, nRead, nDone, got,
                   outcome, tunIn, fail, sigAt, nCreate, nDown, nTunClose,
                   nDel, nSockClose, nCleanup, nSig, nEv, hpc, retry_count,
                   backoff, last_error, response, client, clientGone,
                   attempts, waits, nGet>>

\* connect_to_serial, lines 160-166: socket(); connect(); return sock.
ConnectOk ==
    /\ pc = "cs_163"
    /\ hstack = <<>>
    /\ nConn' = nConn + 1
    /\ sock' = nConn + 1
    /\ openSocks' = openSocks \cup {nConn + 1}
    /\ wire' = <<>>
    /\ rx' = <<>>
    /\ peerFin' = FALSE
    /\ tx' = <<>>
    /\ sent' = <<>>
    /\ nRead' = 0
    /\ nDone' = 0
    /\ tunW' = <<>>
    /\ got' = <<>>
    /\ pc' = "r_318"
    /\ UNCHANGED <<serial_sock, tun, running, hstack, attempt, rlist,
                   readable, ret, frame_len, eth_frame, ip_packet, exit,
                   HAVE_PYTUN, tunFd, tunIf, tunRq, outcome, tunIn, fail,
                   sigAt, nCreate, nDown, nTunClose, nDel, nSockClose,
                   nCleanup, nSig, nEv, hpc, retry_count, backoff,
                   last_error, response, client, clientGone, attempts, waits,
                   nGet>>

\* connect_to_serial, lines 167-176: the connect is refused (attempt += 1) or
\* fails otherwise; sleep a second and retry. This can happen any number of
\* times; attempt, which is only logged, is counted up to MaxAttempts.
ConnectFails ==
    /\ pc = "cs_163"
    /\ hstack = <<>>
    /\ \E refused \in BOOLEAN :
          attempt' = IF refused THEN Min(attempt + 1, MaxAttempts) ELSE attempt
    /\ pc' = "cs_172"
    /\ UNCHANGED <<serial_sock, tun, running, hstack, sock, rlist, readable,
                   ret, frame_len, eth_frame, ip_packet, exit, HAVE_PYTUN,
                   nConn, openSocks, tunFd, tunIf, wire, rx, peerFin, tx,
                   tunRq, tunW, sent, nRead, nDone, got, outcome, tunIn,
                   fail, sigAt, nCreate, nDown, nTunClose, nDel, nSockClose,
                   nCleanup, nSig, nEv, hpc, retry_count, backoff,
                   last_error, response, client, clientGone, attempts, waits,
                   nGet>>

\* connect_to_serial, lines 172/176: time.sleep(1), then the next attempt.
ConnectSleep ==
    /\ pc = "cs_172"
    /\ hstack = <<>>
    /\ pc' = "cs_163"
    /\ UNCHANGED <<serial_sock, tun, running, hstack, sock, attempt, rlist,
                   readable, ret, frame_len, eth_frame, ip_packet, exit,
                   HAVE_PYTUN, nConn, openSocks, tunFd, tunIf, wire, rx,
                   peerFin, tx, tunRq, tunW, sent, nRead, nDone, got,
                   outcome, tunIn, fail, sigAt, nCreate, nDown, nTunClose,
                   nDel, nSockClose, nCleanup, nSig, nEv, hpc, retry_count,
                   backoff, last_error, response, client, clientGone,
                   attempts, waits, nGet>>

\* run(), line 318: self.serial_sock = the socket connect_to_serial returned.
AssignSock ==
    /\ pc = "r_318"
    /\ hstack = <<>>
    /\ serial_sock' = sock
    /\ attempt' = 0
    /\ pc' = "r_319"
    /\ UNCHANGED <<tun, running, hstack, sock, rlist, readable, ret,
                   frame_len, eth_frame, ip_packet, exit, HAVE_PYTUN, nConn,
                   openSocks, tunFd, tunIf, wire, rx, peerFin, tx, tunRq,
                   tunW, sent, nRead, nDone, got, outcome, tunIn, fail,
                   sigAt, nCreate, nDown, nTunClose, nDel, nSockClose,
                   nCleanup, nSig, nEv, hpc, retry_count, backoff,
                   last_error, response, client, clientGone, attempts, waits,
                   nGet>>

\* run(), lines 319-326: if not self.serial_sock: the retry branch; else the
\* bridge is active.
TestSock ==
    /\ pc = "r_319"
    /\ hstack = <<>>
    /\ pc' = ConnectedTarget(serial_sock)
    /\ UNCHANGED <<serial_sock, tun, running, hstack, sock, attempt, rlist,
                   readable, ret, frame_len, eth_frame, ip_packet, exit,
                   HAVE_PYTUN, nConn, openSocks, tunFd, tunIf, wire, rx,
                   peerFin, tx, tunRq, tunW, sent, nRead, nDone, got,
                   outcome, tunIn, fail, sigAt, nCreate, nDown, nTunClose,
                   nDel, nSockClose, nCleanup, nSig, nEv, hpc, retry_count,
                   backoff, last_error, response, client, clientGone,
                   attempts, waits, nGet>>

\* run(), lines 320-323: log 'Failed to connect to serial, retrying...';
\* time.sleep(2); continue.
FailedToConnect ==
    /\ pc = "r_320"
    /\ hstack = <<>>
    /\ pc' = "r_316"
    /\ UNCHANGED <<serial_sock, tun, running, hstack, sock, attempt, rlist,
                   readable, ret, frame_len, eth_frame, ip_packet, exit,
                   HAVE_PYTUN, nConn, openSocks, tunFd, tunIf, wire, rx,
                   peerFin, tx, tunRq, tunW, sent, nRead, nDone, got,
                   outcome, tunIn, fail, sigAt, nCreate, nDown, nTunClose,
                   nDel, nSockClose, nCleanup, nSig, nEv, hpc, retry_count,
                   backoff, last_error, response, client, clientGone,
                   attempts, waits, nGet>>

\* run(), line 329: while self.running (inner loop).
InnerLoop ==
    /\ pc = "r_329"
    /\ hstack = <<>>
    /\ pc' = InnerTarget(running)
    /\ UNCHANGED <<serial_sock, tun, running, hstack, sock, attempt, rlist,
                   readable, ret, frame_len, eth_frame, ip_packet, exit,
                   HAVE_PYTUN, nConn, openSocks, tunFd, tunIf, wire, rx,
                   peerFin, tx, tunRq, tunW, sent, nRead, nDone, got,
                   outcome, tunIn, fail, sigAt, nCreate, nDown, nTunClose,
                   nDel, nSockClose, nCleanup, nSig, nEv, hpc, retry_count,
                   backoff, last_error, response, client, clientGone,
                   attempts, waits, nGet>>

\* run(), line 331: rlist = [self.serial_sock, self.tun].
BuildRlist ==
    /\ pc = "r_331"
    /\ hstack = <<>>
    /\ rlist' = <<serial_sock, tun>>
    /\ pc' = "r_332"
    /\ UNCHANGED <<serial_sock, tun, running, hstack, sock, attempt,
                   readable, ret, frame_len, eth_frame, ip_packet, exit,
                   HAVE_PYTUN, nConn, openSocks, tunFd, tunIf, wire, rx,
                   peerFin, tx, tunRq, tunW, sent, nRead, nDone, got,
                   outcome, tunIn, fail, sigAt, nCreate, nDown, nTunClose,
                   nDel, nSockClose, nCleanup, nSig, nEv, hpc, retry_count,
                   backoff, last_error, response, client, clientGone,
                   attempts, waits, nGet>>

\* run(), line 332: select(rlist, [], [], 1.0) returns the ready ones, or none
\* at the timeout.
Select ==
    /\ pc = "r_332"
    /\ SelectOk(rlist)
    /\ hstack = <<>>
    /\ readable' = Ready(rlist)
    /\ pc' = "r_334"
    /\ UNCHANGED <<serial_sock, tun, running, hstack, sock, attempt, rlist,
                   ret, frame_len, eth_frame, ip_packet, exit, HAVE_PYTUN,
                   nConn, openSocks, tunFd, tunIf, wire, rx, peerFin, tx,
                   tunRq, tunW, sent, nRead, nDone, got, outcome, tunIn,
                   fail, sigAt, nCreate, nDown, nTunClose, nDel, nSockClose,
                   nCleanup, nSig, nEv, hpc, retry_count, backoff,
                   last_error, response, client, clientGone, attempts, waits,
                   nGet>>

\* run(), line 332: select on None or on a closed handle raises; nothing in
\* run() catches it.
SelectRaises ==
    /\ pc = "r_332"
    /\ ~SelectOk(rlist)
    /\ hstack = <<>>
    /\ pc' = "done"
    /\ exit' = "exc"
    /\ UNCHANGED <<serial_sock, tun, running, hstack, sock, attempt, rlist,
                   readable, ret, frame_len, eth_frame, ip_packet,
                   HAVE_PYTUN, nConn, openSocks, tunFd, tunIf, wire, rx,
                   peerFin, tx, tunRq, tunW, sent, nRead, nDone, got,
                   outcome, tunIn, fail, sigAt, nCreate, nDown, nTunClose,
                   nDel, nSockClose, nCleanup, nSig, nEv, hpc, retry_count,
                   backoff, last_error, response, client, clientGone,
                   attempts, waits, nGet>>

\* run(), lines 334-335, 345: next r of readable, dispatched by comparing with
\* the fields; after the last, line 352.
ForReadable ==
    /\ pc = "r_334"
    /\ hstack = <<>>
    /\ readable' = IF readable = <<>> THEN readable ELSE Tail(readable)
    /\ got' = IF readable = <<>> THEN got ELSE <<>>
    /\ outcome' = IF readable = <<>> THEN outcome ELSE "none"
    /\ pc' = IF readable = <<>> THEN "r_352" ELSE Dispatch(Head(readable), serial_sock, tun)
    /\ UNCHANGED <<serial_sock, tun, running, hstack, sock, attempt, rlist,
                   ret, frame_len, eth_frame, ip_packet, exit, HAVE_PYTUN,
                   nConn, openSocks, tunFd, tunIf, wire, rx, peerFin, tx,
                   tunRq, tunW, sent, nRead, nDone, tunIn, fail, sigAt,
                   nCreate, nDown, nTunClose, nDel, nSockClose, nCleanup,
                   nSig, nEv, hpc, retry_count, backoff, last_error,
                   response, client, clientGone, attempts, waits, nGet>>

\* serial_to_tun, lines 182-190: recv(2); the length check.
RecvHeader ==
    /\ pc = "s2t_182"
    /\ SockUsable
    /\ Len(rx) >= 2
    /\ hstack = <<>>
    /\ frame_len' = UnpackH(Take(rx, 2))
    /\ rx' = Drop(rx, 2)
    /\ nRead' = nRead + 2
    /\ IF InvalidLen(UnpackH(Take(rx, 2)))
          THEN ret' = TRUE /\ outcome' = "skip" /\ nDone' = nDone + 1 /\ pc' = "r_336"
          ELSE ret' = ret /\ outcome' = outcome /\ nDone' = nDone /\ pc' = "s2t_195"
    /\ UNCHANGED <<serial_sock, tun, running, hstack, sock, attempt, rlist,
                   readable, eth_frame, ip_packet, exit, HAVE_PYTUN, nConn,
                   openSocks, tunFd, tunIf, wire, peerFin, tx, tunRq, tunW,
                   sent, got, tunIn, fail, sigAt, nCreate, nDown, nTunClose,
                   nDel, nSockClose, nCleanup, nSig, nEv, hpc, retry_count,
                   backoff, last_error, response, client, clientGone,
                   attempts, waits, nGet>>

\* serial_to_tun, lines 182-184: recv(2) returns fewer than 2 bytes: return
\* False.
RecvHeaderShort ==
    /\ pc = "s2t_182"
    /\ SockUsable
    /\ Len(rx) < 2
    /\ rx # <<>> \/ (peerFin /\ wire = <<>>)
    /\ hstack = <<>>
    /\ nRead' = nRead + Len(rx)
    /\ rx' = <<>>
    /\ ret' = FALSE
    /\ outcome' = "lost"
    /\ fail' = "serial_eof"
    /\ pc' = "r_336"
    /\ UNCHANGED <<serial_sock, tun, running, hstack, sock, attempt, rlist,
                   readable, frame_len, eth_frame, ip_packet, exit,
                   HAVE_PYTUN, nConn, openSocks, tunFd, tunIf, wire, peerFin,
                   tx, tunRq, tunW, sent, nDone, got, tunIn, sigAt, nCreate,
                   nDown, nTunClose, nDel, nSockClose, nCleanup, nSig, nEv,
                   hpc, retry_count, backoff, last_error, response, client,
                   clientGone, attempts, waits, nGet>>

\* serial_to_tun, lines 194-207: one recv of the payload loop; after the last,
\* the header check and the slice.
RecvChunk ==
    /\ pc = "s2t_195"
    /\ SockUsable
    /\ rx # <<>>
    /\ hstack = <<>>
    /\ rx' = Drop(rx, ChunkLen(frame_len, eth_frame, rx))
    /\ nRead' = nRead + ChunkLen(frame_len, eth_frame, rx)
    /\ LET frame == eth_frame \o Take(rx, ChunkLen(frame_len, eth_frame, rx))
       IN  IF Len(frame) < frame_len
           THEN eth_frame' = frame /\ UNCHANGED <<ret, outcome, nDone, ip_packet, pc, got>>
           ELSE /\ nDone' = nDone + 1 /\ got' = frame
                /\ IF TooShort(frame_len)
                   THEN /\ ret' = TRUE /\ outcome' = "short" /\ pc' = "r_336"
                        /\ ip_packet' = <<>> /\ eth_frame' = <<>>
                   ELSE /\ ret' = ret /\ outcome' = outcome /\ pc' = "s2t_227"
                        /\ ip_packet' = StripHeader(frame) /\ eth_frame' = frame
    /\ UNCHANGED <<serial_sock, tun, running, hstack, sock, attempt, rlist,
                   readable, frame_len, exit, HAVE_PYTUN, nConn, openSocks,
                   tunFd, tunIf, wire, peerFin, tx, tunRq, tunW, sent, tunIn,
                   fail, sigAt, nCreate, nDown, nTunClose, nDel, nSockClose,
                   nCleanup, nSig, nEv, hpc, retry_count, backoff,
                   last_error, response, client, clientGone, attempts, waits,
                   nGet>>

\* serial_to_tun, lines 195-197: recv returns b'' (the peer closed): return
\* False.
RecvChunkEof ==
    /\ pc = "s2t_195"
    /\ SockUsable
    /\ rx = <<>>
    /\ peerFin
    /\ wire = <<>>
    /\ hstack = <<>>
    /\ ret' = FALSE
    /\ eth_frame' = <<>>
    /\ ip_packet' = <<>>
    /\ outcome' = "lost"
    /\ fail' = "serial_eof"
    /\ pc' = "r_336"
    /\ UNCHANGED <<serial_sock, tun, running, hstack, sock, attempt, rlist,
                   readable, frame_len, exit, HAVE_PYTUN, nConn, openSocks,
                   tunFd, tunIf, wire, rx, peerFin, tx, tunRq, tunW, sent,
                   nRead, nDone, got, tunIn, sigAt, nCreate, nDown,
                   nTunClose, nDel, nSockClose, nCleanup, nSig, nEv, hpc,
                   retry_count, backoff, last_error, response, client,
                   clientGone, attempts, waits, nGet>>

\* serial_to_tun, lines 182/195 and 231-233: recv raises (connection reset):
\* return False.
RecvRaises ==
    /\ pc \in {"s2t_182", "s2t_195"}
    /\ SockUsable
    /\ hstack = <<>>
    /\ nEv < MaxEvents
    /\ nEv' = nEv + 1
    /\ fail' = "serial_read"
    /\ ret' = FALSE
    /\ eth_frame' = <<>>
    /\ ip_packet' = <<>>
    /\ outcome' = "error"
    /\ pc' = "r_336"
    /\ UNCHANGED <<serial_sock, tun, running, hstack, sock, attempt, rlist,
                   readable, frame_len, exit, HAVE_PYTUN, nConn, openSocks,
                   tunFd, tunIf, wire, rx, peerFin, tx, tunRq, tunW, sent,
                   nRead, nDone, got, tunIn, sigAt, nCreate, nDown,
                   nTunClose, nDel, nSockClose, nCleanup, nSig, hpc,
                   retry_count, backoff, last_error, response, client,
                   clientGone, attempts, waits, nGet>>

\* serial_to_tun, lines 226-229: self.tun.write(ip_packet); return True.
TunWrite ==
    /\ pc = "s2t_227"
    /\ TunUsable
    /\ hstack = <<>>
    /\ tunW' = Append(tunW, ip_packet)
    /\ ret' = TRUE
    /\ outcome' = "frame"
    /\ eth_frame' = <<>>
    /\ ip_packet' = <<>>
    /\ pc' = "r_336"
    /\ UNCHANGED <<serial_sock, tun, running, hstack, sock, attempt, rlist,
                   readable, frame_len, exit, HAVE_PYTUN, nConn, openSocks,
                   tunFd, tunIf, wire, rx, peerFin, tx, tunRq, sent, nRead,
                   nDone, got, tunIn, fail, sigAt, nCreate, nDown, nTunClose,
                   nDel, nSockClose, nCleanup, nSig, nEv, hpc, retry_count,
                   backoff, last_error, response, client, clientGone,
                   attempts, waits, nGet>>

\* serial_to_tun, lines 227 and 231-233: the TUN write raises: return False.
TunWriteRaises ==
    /\ pc = "s2t_227"
    /\ TunUsable
    /\ hstack = <<>>
    /\ nEv < MaxEvents
    /\ nEv' = nEv + 1
    /\ fail' = "tun_write"
    /\ ret' = FALSE
    /\ eth_frame' = <<>>
    /\ ip_packet' = <<>>
    /\ outcome' = "error"
    /\ pc' = "r_336"
    /\ UNCHANGED <<serial_sock, tun, running, hstack, sock, attempt, rlist,
                   readable, frame_len, exit, HAVE_PYTUN, nConn, openSocks,
                   tunFd, tunIf, wire, rx, peerFin, tx, tunRq, tunW, sent,
                   nRead, nDone, got, tunIn, sigAt, nCreate, nDown,
                   nTunClose, nDel, nSockClose, nCleanup, nSig, hpc,
                   retry_count, backoff, last_error, response, client,
                   clientGone, attempts, waits, nGet>>

\* serial_to_tun / tun_to_serial, lines 231-233, 278-280: the field is None or
\* the handle closed; the exception is caught: return False.
RelayOnDeadHandle ==
    /\ \/ pc \in {"s2t_182", "s2t_195", "t2s_271", "t2s_274"} /\ ~SockUsable
       \/ pc \in {"s2t_227", "t2s_239"} /\ ~TunUsable
    /\ hstack = <<>>
    /\ ret' = FALSE
    /\ eth_frame' = <<>>
    /\ ip_packet' = <<>>
    /\ outcome' = "error"
    /\ pc' = ExcPc(pc)
    /\ UNCHANGED <<serial_sock, tun, running, hstack, sock, attempt, rlist,
                   readable, frame_len, exit, HAVE_PYTUN, nConn, openSocks,
                   tunFd, tunIf, wire, rx, peerFin, tx, tunRq, tunW, sent,
                   nRead, nDone, got, tunIn, fail, sigAt, nCreate, nDown,
                   nTunClose, nDel, nSockClose, nCleanup, nSig, nEv, hpc,
                   retry_count, backoff, last_error, response, client,
                   clientGone, attempts, waits, nGet>>

\* run(), lines 336-337: if not self.serial_to_tun(): go and close the socket.
AfterSerialToTun ==
    /\ pc = "r_336"
    /\ hstack = <<>>
    /\ pc' = SerialResultTarget(ret)
    /\ UNCHANGED <<serial_sock, tun, running, hstack, sock, attempt, rlist,
                   readable, ret, frame_len, eth_frame, ip_packet, exit,
                   HAVE_PYTUN, nConn, openSocks, tunFd, tunIf, wire, rx,
                   peerFin, tx, tunRq, tunW, sent, nRead, nDone, got,
                   outcome, tunIn, fail, sigAt, nCreate, nDown, nTunClose,
                   nDel, nSockClose, nCleanup, nSig, nEv, hpc, retry_count,
                   backoff, last_error, response, client, clientGone,
                   attempts, waits, nGet>>

\* run(), lines 338-341: try: self.serial_sock.close(); except: pass.
CloseLostSock ==
    /\ pc = "r_339"
    /\ hstack = <<>>
    /\ openSocks' = openSocks \ {serial_sock}
    /\ nSockClose' = IF serial_sock \in openSocks THEN nSockClose + 1 ELSE nSockClose
    /\ pc' = "r_342"
    /\ UNCHANGED <<serial_sock, tun, running, hstack, sock, attempt, rlist,
                   readable, ret, frame_len, eth_frame, ip_packet, exit,
                   HAVE_PYTUN, nConn, tunFd, tunIf, wire, rx, peerFin, tx,
                   tunRq, tunW, sent, nRead, nDone, got, outcome, tunIn,
                   fail, sigAt, nCreate, nDown, nTunClose, nDel, nCleanup,
                   nSig, nEv, hpc, retry_count, backoff, last_error,
                   response, client, clientGone, attempts, waits, nGet>>

\* run(), lines 342-343: self.serial_sock = None; break.
DiscardSock ==
    /\ pc = "r_342"
    /\ hstack = <<>>
    /\ serial_sock' = None
    /\ readable' = AfterBreak(readable)
    /\ pc' = IF AfterBreak(readable) = <<>> THEN "r_352" ELSE "r_334"
    /\ UNCHANGED <<tun, running, hstack, sock, attempt, rlist, ret,
                   frame_len, eth_frame, ip_packet, exit, HAVE_PYTUN, nConn,
                   openSocks, tunFd, tunIf, wire, rx, peerFin, tx, tunRq,
                   tunW, sent, nRead, nDone, got, outcome, tunIn, fail,
                   sigAt, nCreate, nDown, nTunClose, nDel, nSockClose,
                   nCleanup, nSig, nEv, hpc, retry_count, backoff,
                   last_error, response, client, clientGone, attempts, waits,
                   nGet>>

\* tun_to_serial, lines 239-265: read a packet; empty: return True; else build
\* the frame.
TunRead ==
    /\ pc = "t2s_239"
    /\ TunUsable
    /\ tunRq # <<>>
    /\ hstack = <<>>
    /\ tunRq' = Tail(tunRq)
    /\ LET packet == Take(Head(tunRq), Min(MAX_FRAME_SIZE, Len(Head(tunRq))))
       IN  /\ tunIn' = Append(tunIn, packet)
           /\ IF packet = <<>>
              THEN /\ ret' = TRUE /\ outcome' = "t_empty" /\ pc' = "r_346"
                   /\ UNCHANGED <<eth_frame, ip_packet>>
              ELSE /\ ret' = ret /\ outcome' = outcome /\ pc' = "t2s_271"
                   /\ ip_packet' = packet /\ eth_frame' = AddHeader(packet)
    /\ UNCHANGED <<serial_sock, tun, running, hstack, sock, attempt, rlist,
                   readable, frame_len, exit, HAVE_PYTUN, nConn, openSocks,
                   tunFd, tunIf, wire, rx, peerFin, tx, tunW, sent, nRead,
                   nDone, got, fail, sigAt, nCreate, nDown, nTunClose, nDel,
                   nSockClose, nCleanup, nSig, nEv, hpc, retry_count,
                   backoff, last_error, response, client, clientGone,
                   attempts, waits, nGet>>

\* tun_to_serial, lines 239 and 278-280: the TUN read raises: return False.
TunReadRaises ==
    /\ pc = "t2s_239"
    /\ TunUsable
    /\ hstack = <<>>
    /\ nEv < MaxEvents
    /\ nEv' = nEv + 1
    /\ fail' = "tun_read"
    /\ ret' = FALSE
    /\ eth_frame' = <<>>
    /\ ip_packet' = <<>>
    /\ outcome' = "error"
    /\ pc' = "r_346"
    /\ UNCHANGED <<serial_sock, tun, running, hstack, sock, attempt, rlist,
                   readable, frame_len, exit, HAVE_PYTUN, nConn, openSocks,
                   tunFd, tunIf, wire, rx, peerFin, tx, tunRq, tunW, sent,
                   nRead, nDone, got, tunIn, sigAt, nCreate, nDown,
                   nTunClose, nDel, nSockClose, nCleanup, nSig, hpc,
                   retry_count, backoff, last_error, response, client,
                   clientGone, attempts, waits, nGet>>

\* tun_to_serial, lines 269-271: sendall(struct.pack('>H', frame_len)).
SendLength ==
    /\ pc = "t2s_271"
    /\ SockUsable
    /\ hstack = <<>>
    /\ tx' = tx \o LenPrefix(eth_frame)
    /\ pc' = "t2s_274"
    /\ UNCHANGED <<serial_sock, tun, running, hstack, sock, attempt, rlist,
                   readable, ret, frame_len, eth_frame, ip_packet, exit,
                   HAVE_PYTUN, nConn, openSocks, tunFd, tunIf, wire, rx,
                   peerFin, tunRq, tunW, sent, nRead, nDone, got, outcome,
                   tunIn, fail, sigAt, nCreate, nDown, nTunClose, nDel,
                   nSockClose, nCleanup, nSig, nEv, hpc, retry_count,
                   backoff, last_error, response, client, clientGone,
                   attempts, waits, nGet>>

\* tun_to_serial, lines 273-276: sendall(eth_frame); return True.
SendFrame ==
    /\ pc = "t2s_274"
    /\ SockUsable
    /\ hstack = <<>>
    /\ tx' = tx \o eth_frame
    /\ ret' = TRUE
    /\ outcome' = "t_sent"
    /\ eth_frame' = <<>>
    /\ ip_packet' = <<>>
    /\ pc' = "r_346"
    /\ UNCHANGED <<serial_sock, tun, running, hstack, sock, attempt, rlist,
                   readable, frame_len, exit, HAVE_PYTUN, nConn, openSocks,
                   tunFd, tunIf, wire, rx, peerFin, tunRq, tunW, sent, nRead,
                   nDone, got, tunIn, fail, sigAt, nCreate, nDown, nTunClose,
                   nDel, nSockClose, nCleanup, nSig, nEv, hpc, retry_count,
                   backoff, last_error, response, client, clientGone,
                   attempts, waits, nGet>>

\* tun_to_serial, lines 271/274 and 278-280: sendall raises, some of the bytes
\* sent or none: return False.
SendRaises ==
    /\ pc \in {"t2s_271", "t2s_274"}
    /\ SockUsable
    /\ hstack = <<>>
    /\ nEv < MaxEvents
    /\ nEv' = nEv + 1
    /\ fail' = "serial_write"
    /\ \E k \in {0, 1} : tx' = tx \o Take(eth_frame, IF pc = "t2s_274" THEN k ELSE 0)
    /\ ret' = FALSE
    /\ eth_frame' = <<>>
    /\ ip_packet' = <<>>
    /\ outcome' = "error"
    /\ pc' = "r_346"
    /\ UNCHANGED <<serial_sock, tun, running, hstack, sock, attempt, rlist,
                   readable, frame_len, exit, HAVE_PYTUN, nConn, openSocks,
                   tunFd, tunIf, wire, rx, peerFin, tunRq, tunW, sent, nRead,
                   nDone, got, tunIn, sigAt, nCreate, nDown, nTunClose, nDel,
                   nSockClose, nCleanup, nSig, hpc, retry_count, backoff,
                   last_error, response, client, clientGone, attempts, waits,
                   nGet>>

\* run(), lines 346-349: if not self.tun_to_serial(): self.running = False;
\* break.
AfterTunToSerial ==
    /\ pc = "r_346"
    /\ hstack = <<>>
    /\ running' = TunResultRunning(ret, running)
    /\ pc' = TunResultTarget(ret)
    /\ readable' = IF ret THEN readable ELSE <<>>
    /\ UNCHANGED <<serial_sock, tun, hstack, sock, attempt, rlist, ret,
                   frame_len, eth_frame, ip_packet, exit, HAVE_PYTUN, nConn,
                   openSocks, tunFd, tunIf, wire, rx, peerFin, tx, tunRq,
                   tunW, sent, nRead, nDone, got, outcome, tunIn, fail,
                   sigAt, nCreate, nDown, nTunClose, nDel, nSockClose,
                   nCleanup, nSig, nEv, hpc, retry_count, backoff,
                   last_error, response, client, clientGone, attempts, waits,
                   nGet>>

\* run(), lines 352-353: if self.serial_sock is None: break (to the outer
\* loop).
CheckSock ==
    /\ pc = "r_352"
    /\ hstack = <<>>
    /\ pc' = CheckSockTarget(serial_sock)
    /\ UNCHANGED <<serial_sock, tun, running, hstack, sock, attempt, rlist,
                   readable, ret, frame_len, eth_frame, ip_packet, exit,
                   HAVE_PYTUN, nConn, openSocks, tunFd, tunIf, wire, rx,
                   peerFin, tx, tunRq, tunW, sent, nRead, nDone, got,
                   outcome, tunIn, fail, sigAt, nCreate, nDown, nTunClose,
                   nDel, nSockClose, nCleanup, nSig, nEv, hpc, retry_count,
                   backoff, last_error, response, client, clientGone,
                   attempts, waits, nGet>>

\* run(), line 355: self.cleanup().
CallCleanup ==
    /\ pc = "r_355"
    /\ hstack = <<>>
    /\ hstack' = <<"c_286">>
    /\ pc' = "r_355w"
    /\ UNCHANGED <<serial_sock, tun, running, sock, attempt, rlist, readable,
                   ret, frame_len, eth_frame, ip_packet, exit, HAVE_PYTUN,
                   nConn, openSocks, tunFd, tunIf, wire, rx, peerFin, tx,
                   tunRq, tunW, sent, nRead, nDone, got, outcome, tunIn,
                   fail, sigAt, nCreate, nDown, nTunClose, nDel, nSockClose,
                   nCleanup, nSig, nEv, hpc, retry_count, backoff,
                   last_error, response, client, clientGone, attempts, waits,
                   nGet>>

\* run(), line 356: return 0.
Return0 ==
    /\ pc = "r_356"
    /\ hstack = <<>>
    /\ exit' = "0"
    /\ pc' = "done"
    /\ UNCHANGED <<serial_sock, tun, running, hstack, sock, attempt, rlist,
                   readable, ret, frame_len, eth_frame, ip_packet,
                   HAVE_PYTUN, nConn, openSocks, tunFd, tunIf, wire, rx,
                   peerFin, tx, tunRq, tunW, sent, nRead, nDone, got,
                   outcome, tunIn, fail, sigAt, nCreate, nDown, nTunClose,
                   nDel, nSockClose, nCleanup, nSig, nEv, hpc, retry_count,
                   backoff, last_error, response, client, clientGone,
                   attempts, waits, nGet>>

\* A signal arrives (lines 305-306): the handler, lambda s, f: self.cleanup(),
\* starts on top of whatever the thread is doing.
Signal ==
    /\ pc \notin {"r_305", "done"}
    /\ nEv < MaxEvents
    /\ nEv' = nEv + 1
    /\ nSig' = nSig + 1
    /\ hstack' = <<"c_286">> \o hstack
    /\ sigAt' = IF nSig = 0 THEN SigPlace ELSE sigAt
    /\ UNCHANGED <<serial_sock, tun, running, pc, sock, attempt, rlist,
                   readable, ret, frame_len, eth_frame, ip_packet, exit,
                   HAVE_PYTUN, nConn, openSocks, tunFd, tunIf, wire, rx,
                   peerFin, tx, tunRq, tunW, sent, nRead, nDone, got,
                   outcome, tunIn, fail, nCreate, nDown, nTunClose, nDel,
                   nSockClose, nCleanup, hpc, retry_count, backoff,
                   last_error, response, client, clientGone, attempts, waits,
                   nGet>>

\* cleanup, lines 284-286: log 'Cleaning up...'; self.running = False.
CleanupStart ==
    /\ hstack # <<>>
    /\ Head(hstack) = "c_286"
    /\ running' = FALSE
    /\ nCleanup' = nCleanup + 1
    /\ hstack' = <<"c_288">> \o Tail(hstack)
    /\ UNCHANGED <<serial_sock, tun, pc, sock, attempt, rlist, readable, ret,
                   frame_len, eth_frame, ip_packet, exit, HAVE_PYTUN, nConn,
                   openSocks, tunFd, tunIf, wire, rx, peerFin, tx, tunRq,
                   tunW, sent, nRead, nDone, got, outcome, tunIn, fail,
                   sigAt, nCreate, nDown, nTunClose, nDel, nSockClose, nSig,
                   nEv, hpc, retry_count, backoff, last_error, response,
                   client, clientGone, attempts, waits, nGet>>

\* cleanup, line 288: if self.serial_sock.
CleanupTestSock ==
    /\ hstack # <<>>
    /\ Head(hstack) = "c_288"
    /\ hstack' = <<CleanupSockTarget(serial_sock)>> \o Tail(hstack)
    /\ UNCHANGED <<serial_sock, tun, running, pc, sock, attempt, rlist,
                   readable, ret, frame_len, eth_frame, ip_packet, exit,
                   HAVE_PYTUN, nConn, openSocks, tunFd, tunIf, wire, rx,
                   peerFin, tx, tunRq, tunW, sent, nRead, nDone, got,
                   outcome, tunIn, fail, sigAt, nCreate, nDown, nTunClose,
                   nDel, nSockClose, nCleanup, nSig, nEv, hpc, retry_count,
                   backoff, last_error, response, client, clientGone,
                   attempts, waits, nGet>>

\* cleanup, line 289: self.serial_sock.close() (closing a closed socket does
\* nothing).
CleanupCloseSock ==
    /\ hstack # <<>>
    /\ Head(hstack) = "c_289"
    /\ serial_sock # None
    /\ openSocks' = openSocks \ {serial_sock}
    /\ nSockClose' = IF serial_sock \in openSocks THEN nSockClose + 1 ELSE nSockClose
    /\ hstack' = <<"c_290">> \o Tail(hstack)
    /\ UNCHANGED <<serial_sock, tun, running, pc, sock, attempt, rlist,
                   readable, ret, frame_len, eth_frame, ip_packet, exit,
                   HAVE_PYTUN, nConn, tunFd, tunIf, wire, rx, peerFin, tx,
                   tunRq, tunW, sent, nRead, nDone, got, outcome, tunIn,
                   fail, sigAt, nCreate, nDown, nTunClose, nDel, nCleanup,
                   nSig, nEv, hpc, retry_count, backoff, last_error,
                   response, client, clientGone, attempts, waits, nGet>>

\* cleanup, line 290: self.serial_sock = None.
CleanupDiscardSock ==
    /\ hstack # <<>>
    /\ Head(hstack) = "c_290"
    /\ serial_sock' = None
    /\ hstack' = <<"c_292">> \o Tail(hstack)
    /\ UNCHANGED <<tun, running, pc, sock, attempt, rlist, readable, ret,
                   frame_len, eth_frame, ip_packet, exit, HAVE_PYTUN, nConn,
                   openSocks, tunFd, tunIf, wire, rx, peerFin, tx, tunRq,
                   tunW, sent, nRead, nDone, got, outcome, tunIn, fail,
                   sigAt, nCreate, nDown, nTunClose, nDel, nSockClose,
                   nCleanup, nSig, nEv, hpc, retry_count, backoff,
                   last_error, response, client, clientGone, attempts, waits,
                   nGet>>

\* cleanup, lines 292-293: if self.tun, by backend.
CleanupTestTun ==
    /\ hstack # <<>>
    /\ Head(hstack) = "c_292"
    /\ tun # None
    /\ hstack' = <<CleanupTunTarget(HAVE_PYTUN)>> \o Tail(hstack)
    /\ UNCHANGED <<serial_sock, tun, running, pc, sock, attempt, rlist,
                   readable, ret, frame_len, eth_frame, ip_packet, exit,
                   HAVE_PYTUN, nConn, openSocks, tunFd, tunIf, wire, rx,
                   peerFin, tx, tunRq, tunW, sent, nRead, nDone, got,
                   outcome, tunIn, fail, sigAt, nCreate, nDown, nTunClose,
                   nDel, nSockClose, nCleanup, nSig, nEv, hpc, retry_count,
                   backoff, last_error, response, client, clientGone,
                   attempts, waits, nGet>>

\* cleanup, line 294: self.tun.down().
CleanupDown ==
    /\ hstack # <<>>
    /\ Head(hstack) = "c_294"
    /\ TunUsable
    /\ tunIf' = "down"
    /\ nDown' = nDown + 1
    /\ hstack' = <<"c_295">> \o Tail(hstack)
    /\ UNCHANGED <<serial_sock, tun, running, pc, sock, attempt, rlist,
                   readable, ret, frame_len, eth_frame, ip_packet, exit,
                   HAVE_PYTUN, nConn, openSocks, tunFd, wire, rx, peerFin,
                   tx, tunRq, tunW, sent, nRead, nDone, got, outcome, tunIn,
                   fail, sigAt, nCreate, nTunClose, nDel, nSockClose,
                   nCleanup, nSig, nEv, hpc, retry_count, backoff,
                   last_error, response, client, clientGone, attempts, waits,
                   nGet>>

\* cleanup, line 295: self.tun.close() of pytun (closing a closed device does
\* nothing).
CleanupClosePytun ==
    /\ hstack # <<>>
    /\ Head(hstack) = "c_295"
    /\ tun # None
    /\ tunFd' = IF tunFd = "open" THEN "closed" ELSE tunFd
    /\ tunIf' = IF tunFd = "open" THEN "absent" ELSE tunIf
    /\ nTunClose' = IF tunFd = "open" THEN nTunClose + 1 ELSE nTunClose
    /\ hstack' = <<"c_300">> \o Tail(hstack)
    /\ UNCHANGED <<serial_sock, tun, running, pc, sock, attempt, rlist,
                   readable, ret, frame_len, eth_frame, ip_packet, exit,
                   HAVE_PYTUN, nConn, openSocks, wire, rx, peerFin, tx,
                   tunRq, tunW, sent, nRead, nDone, got, outcome, tunIn,
                   fail, sigAt, nCreate, nDown, nDel, nSockClose, nCleanup,
                   nSig, nEv, hpc, retry_count, backoff, last_error,
                   response, client, clientGone, attempts, waits, nGet>>

\* cleanup, line 297 (TunDevice.close, line 151): os.close(self.fd).
CleanupCloseManual ==
    /\ hstack # <<>>
    /\ Head(hstack) = "c_297"
    /\ TunUsable
    /\ tunFd' = "closed"
    /\ tunIf' = "absent"
    /\ nTunClose' = nTunClose + 1
    /\ hstack' = <<"c_299">> \o Tail(hstack)
    /\ UNCHANGED <<serial_sock, tun, running, pc, sock, attempt, rlist,
                   readable, ret, frame_len, eth_frame, ip_packet, exit,
                   HAVE_PYTUN, nConn, openSocks, wire, rx, peerFin, tx,
                   tunRq, tunW, sent, nRead, nDone, got, outcome, tunIn,
                   fail, sigAt, nCreate, nDown, nDel, nSockClose, nCleanup,
                   nSig, nEv, hpc, retry_count, backoff, last_error,
                   response, client, clientGone, attempts, waits, nGet>>

\* cleanup, line 299: ip tuntap del (its result is ignored).
CleanupDelete ==
    /\ hstack # <<>>
    /\ Head(hstack) = "c_299"
    /\ tunIf' = "absent"
    /\ nDel' = nDel + 1
    /\ hstack' = <<"c_300">> \o Tail(hstack)
    /\ UNCHANGED <<serial_sock, tun, running, pc, sock, attempt, rlist,
                   readable, ret, frame_len, eth_frame, ip_packet, exit,
                   HAVE_PYTUN, nConn, openSocks, tunFd, wire, rx, peerFin,
                   tx, tunRq, tunW, sent, nRead, nDone, got, outcome, tunIn,
                   fail, sigAt, nCreate, nDown, nTunClose, nSockClose,
                   nCleanup, nSig, nEv, hpc, retry_count, backoff,
                   last_error, response, client, clientGone, attempts, waits,
                   nGet>>

\* cleanup, line 300: self.tun = None; cleanup returns.
CleanupDiscardTun ==
    /\ hstack # <<>>
    /\ Head(hstack) = "c_300"
    /\ tun' = None
    /\ hstack' = Tail(hstack)
    /\ pc' = IF Tail(hstack) = <<>> /\ pc = "r_355w" THEN "r_356" ELSE pc
    /\ UNCHANGED <<serial_sock, running, sock, attempt, rlist, readable, ret,
                   frame_len, eth_frame, ip_packet, exit, HAVE_PYTUN, nConn,
                   openSocks, tunFd, tunIf, wire, rx, peerFin, tx, tunRq,
                   tunW, sent, nRead, nDone, got, outcome, tunIn, fail,
                   sigAt, nCreate, nDown, nTunClose, nDel, nSockClose,
                   nCleanup, nSig, nEv, hpc, retry_count, backoff,
                   last_error, response, client, clientGone, attempts, waits,
                   nGet>>

\* cleanup, line 292: no TUN device; cleanup returns.
CleanupNoTun ==
    /\ hstack # <<>>
    /\ Head(hstack) = "c_292"
    /\ tun = None
    /\ hstack' = Tail(hstack)
    /\ pc' = IF Tail(hstack) = <<>> /\ pc = "r_355w" THEN "r_356" ELSE pc
    /\ UNCHANGED <<serial_sock, tun, running, sock, attempt, rlist, readable,
                   ret, frame_len, eth_frame, ip_packet, exit, HAVE_PYTUN,
                   nConn, openSocks, tunFd, tunIf, wire, rx, peerFin, tx,
                   tunRq, tunW, sent, nRead, nDone, got, outcome, tunIn,
                   fail, sigAt, nCreate, nDown, nTunClose, nDel, nSockClose,
                   nCleanup, nSig, nEv, hpc, retry_count, backoff,
                   last_error, response, client, clientGone, attempts, waits,
                   nGet>>

\* cleanup, lines 289, 294, 295, 297: the field is None by now
\* (AttributeError) or the handle is closed (down() and os.close raise).
\* Nothing in cleanup catches it: every handler frame is left and the
\* exception surfaces where the main thread was.
CleanupRaises ==
    /\ hstack # <<>>
    /\ \/ Head(hstack) = "c_289" /\ serial_sock = None
       \/ Head(hstack) \in {"c_294", "c_297"} /\ ~TunUsable
       \/ Head(hstack) = "c_295" /\ tun = None
    /\ hstack' = <<>>
    /\ pc' = ExcPc(pc)
    /\ exit' = IF ExcPc(pc) = "done" THEN "exc" ELSE exit
    /\ ret' = FALSE
    /\ outcome' = IF ExcPc(pc) \in {"r_336", "r_346"} THEN "error" ELSE outcome
    /\ eth_frame' = IF ExcPc(pc) \in {"r_336", "r_346"} THEN <<>> ELSE eth_frame
    /\ ip_packet' = IF ExcPc(pc) \in {"r_336", "r_346"} THEN <<>> ELSE ip_packet
    /\ tunFd' = IF pc = "cm_95" THEN "closed" ELSE tunFd
    /\ UNCHANGED <<serial_sock, tun, running, sock, attempt, rlist, readable,
                   frame_len, HAVE_PYTUN, nConn, openSocks, tunIf, wire, rx,
                   peerFin, tx, tunRq, tunW, sent, nRead, nDone, got, tunIn,
                   fail, sigAt, nCreate, nDown, nTunClose, nDel, nSockClose,
                   nCleanup, nSig, nEv, hpc, retry_count, backoff,
                   last_error, response, client, clientGone, attempts, waits,
                   nGet>>

\* The peer sends one frame, the 2-byte big-endian length and then the payload
\* (lines 13-15), and it reaches the socket buffer: all of it, or only its
\* first bytes.
PeerSend(lens, max) ==
    /\ hstack = <<>>
    /\ pc = "r_332"
    /\ nConn \in openSocks
    /\ ~peerFin
    /\ nEv < max
    /\ \E len \in lens :
          LET payload == PeerPayload(len, Len(sent) + 1)
          IN  /\ sent' = Append(sent, payload)
              /\ \E k \in {0} \cup SplitSizes :
                    /\ k > 0 => wire = <<>> /\ nEv + 1 < max /\ k < Len(Encode(payload))
                    /\ nEv' = IF k > 0 THEN nEv + 2 ELSE nEv + 1
                    /\ rx' = IF wire # <<>> THEN rx
                             ELSE IF k > 0 THEN rx \o Take(Encode(payload), k)
                             ELSE rx \o Encode(payload)
                    /\ wire' = IF wire # <<>> THEN wire \o Encode(payload)
                               ELSE IF k > 0 THEN Drop(Encode(payload), k)
                               ELSE <<>>
    /\ UNCHANGED <<serial_sock, tun, running, pc, hstack, sock, attempt,
                   rlist, readable, ret, frame_len, eth_frame, ip_packet,
                   exit, HAVE_PYTUN, nConn, openSocks, tunFd, tunIf, peerFin,
                   tx, tunRq, tunW, nRead, nDone, got, outcome, tunIn, fail,
                   sigAt, nCreate, nDown, nTunClose, nDel, nSockClose,
                   nCleanup, nSig, hpc, retry_count, backoff, last_error,
                   response, client, clientGone, attempts, waits, nGet>>

\* The rest of what the peer sent reaches the socket buffer.
Arrive ==
    /\ hstack = <<>>
    /\ pc = "r_332" \/ (pc = "s2t_195" /\ rx = <<>>)
    /\ nConn \in openSocks
    /\ wire # <<>>
    /\ rx' = rx \o wire
    /\ wire' = <<>>
    /\ UNCHANGED <<serial_sock, tun, running, pc, hstack, sock, attempt,
                   rlist, readable, ret, frame_len, eth_frame, ip_packet,
                   exit, HAVE_PYTUN, nConn, openSocks, tunFd, tunIf, peerFin,
                   tx, tunRq, tunW, sent, nRead, nDone, got, outcome, tunIn,
                   fail, sigAt, nCreate, nDown, nTunClose, nDel, nSockClose,
                   nCleanup, nSig, nEv, hpc, retry_count, backoff,
                   last_error, response, client, clientGone, attempts, waits,
                   nGet>>

\* The peer closes the connection, after what it sent or before the rest got
\* out.
PeerClose(max) ==
    /\ hstack = <<>>
    /\ pc = "r_332" \/ (pc = "s2t_195" /\ rx = <<>>)
    /\ nConn \in openSocks
    /\ ~peerFin
    /\ nEv < max
    /\ nEv' = nEv + 1
    /\ peerFin' = TRUE
    /\ wire' = <<>>
    /\ UNCHANGED <<serial_sock, tun, running, pc, hstack, sock, attempt,
                   rlist, readable, ret, frame_len, eth_frame, ip_packet,
                   exit, HAVE_PYTUN, nConn, openSocks, tunFd, tunIf, rx, tx,
                   tunRq, tunW, sent, nRead, nDone, got, outcome, tunIn,
                   fail, sigAt, nCreate, nDown, nTunClose, nDel, nSockClose,
                   nCleanup, nSig, hpc, retry_count, backoff, last_error,
                   response, client, clientGone, attempts, waits, nGet>>

\* The kernel routes a packet to the TUN interface.
KernelPacket(lens, max) ==
    /\ hstack = <<>>
    /\ pc = "r_332"
    /\ tunFd = "open"
    /\ nEv < max
    /\ nEv' = nEv + 1
    /\ \E len \in lens : tunRq' = Append(tunRq, Pat(len, 100 + Len(tunIn) + Len(tunRq)))
    /\ UNCHANGED <<serial_sock, tun, running, pc, hstack, sock, attempt,
                   rlist, readable, ret, frame_len, eth_frame, ip_packet,
                   exit, HAVE_PYTUN, nConn, openSocks, tunFd, tunIf, wire,
                   rx, peerFin, tx, tunW, sent, nRead, nDone, got, outcome,
                   tunIn, fail, sigAt, nCreate, nDown, nTunClose, nDel,
                   nSockClose, nCleanup, nSig, hpc, retry_count, backoff,
                   last_error, response, client, clientGone, attempts, waits,
                   nGet>>

\* do_GET, lines 57-63: a GET arrives; target_url, retry_count = 0, backoff =
\* INITIAL_BACKOFF, last_error = None.
DoGet ==
    /\ hpc = "idle"
    /\ nGet < MaxRequests
    /\ nGet' = nGet + 1
    /\ retry_count' = 0
    /\ backoff' = INITIAL_BACKOFF
    /\ last_error' = "none"
    /\ response' = "none"
    /\ client' = <<>>
    /\ clientGone' = FALSE
    /\ attempts' = 0
    /\ waits' = <<>>
    /\ hpc' = "p_65"
    /\ UNCHANGED <<serial_sock, tun, running, pc, hstack, sock, attempt,
                   rlist, readable, ret, frame_len, eth_frame, ip_packet,
                   exit, HAVE_PYTUN, nConn, openSocks, tunFd, tunIf, wire,
                   rx, peerFin, tx, tunRq, tunW, sent, nRead, nDone, got,
                   outcome, tunIn, fail, sigAt, nCreate, nDown, nTunClose,
                   nDel, nSockClose, nCleanup, nSig, nEv>>

\* do_GET, line 65: while retry_count <= MAX_RETRIES; past the loop the method
\* ends without a response.
LoopTest ==
    /\ hpc = "p_65"
    /\ hpc' = IF retry_count <= MAX_RETRIES THEN "p_67" ELSE "idle"
    /\ UNCHANGED <<serial_sock, tun, running, pc, hstack, sock, attempt,
                   rlist, readable, ret, frame_len, eth_frame, ip_packet,
                   exit, HAVE_PYTUN, nConn, openSocks, tunFd, tunIf, wire,
                   rx, peerFin, tx, tunRq, tunW, sent, nRead, nDone, got,
                   outcome, tunIn, fail, sigAt, nCreate, nDown, nTunClose,
                   nDel, nSockClose, nCleanup, nSig, nEv, retry_count,
                   backoff, last_error, response, client, clientGone,
                   attempts, waits, nGet>>

\* do_GET, line 67: urlopen returns a response (a status below 400).
UrlopenOk ==
    /\ hpc = "p_67"
    /\ attempts' = attempts + 1
    /\ response' = "open"
    /\ hpc' = "p_69"
    /\ UNCHANGED <<serial_sock, tun, running, pc, hstack, sock, attempt,
                   rlist, readable, ret, frame_len, eth_frame, ip_packet,
                   exit, HAVE_PYTUN, nConn, openSocks, tunFd, tunIf, wire,
                   rx, peerFin, tx, tunRq, tunW, sent, nRead, nDone, got,
                   outcome, tunIn, fail, sigAt, nCreate, nDown, nTunClose,
                   nDel, nSockClose, nCleanup, nSig, nEv, retry_count,
                   backoff, last_error, client, clientGone, waits, nGet>>

\* do_GET, lines 67 and 79-80: urlopen raises URLError (refused, unreachable,
\* or HTTPError for a status of 400 and above): last_error = e.
UrlopenURLError ==
    /\ hpc = "p_67"
    /\ attempts' = attempts + 1
    /\ last_error' = "URLError"
    /\ hpc' = "p_81"
    /\ UNCHANGED <<serial_sock, tun, running, pc, hstack, sock, attempt,
                   rlist, readable, ret, frame_len, eth_frame, ip_packet,
                   exit, HAVE_PYTUN, nConn, openSocks, tunFd, tunIf, wire,
                   rx, peerFin, tx, tunRq, tunW, sent, nRead, nDone, got,
                   outcome, tunIn, fail, sigAt, nCreate, nDown, nTunClose,
                   nDel, nSockClose, nCleanup, nSig, nEv, retry_count,
                   backoff, response, client, clientGone, waits, nGet>>

\* do_GET, lines 67 and 98: urlopen raises something that is no URLError (a
\* timeout while the status line is read, a malformed reply).
UrlopenOther ==
    /\ hpc = "p_67"
    /\ attempts' = attempts + 1
    /\ hpc' = "p_99"
    /\ UNCHANGED <<serial_sock, tun, running, pc, hstack, sock, attempt,
                   rlist, readable, ret, frame_len, eth_frame, ip_packet,
                   exit, HAVE_PYTUN, nConn, openSocks, tunFd, tunIf, wire,
                   rx, peerFin, tx, tunRq, tunW, sent, nRead, nDone, got,
                   outcome, tunIn, fail, sigAt, nCreate, nDown, nTunClose,
                   nDel, nSockClose, nCleanup, nSig, nEv, retry_count,
                   backoff, last_error, response, client, clientGone, waits,
                   nGet>>

\* do_GET, lines 69-72: send_response(status), the headers, end_headers(): the
\* status line and the headers go out to the client.
SendHead ==
    /\ hpc = "p_69"
    /\ ~clientGone
    /\ client' = Append(client, "fwd_head")
    /\ hpc' = "p_73"
    /\ UNCHANGED <<serial_sock, tun, running, pc, hstack, sock, attempt,
                   rlist, readable, ret, frame_len, eth_frame, ip_packet,
                   exit, HAVE_PYTUN, nConn, openSocks, tunFd, tunIf, wire,
                   rx, peerFin, tx, tunRq, tunW, sent, nRead, nDone, got,
                   outcome, tunIn, fail, sigAt, nCreate, nDown, nTunClose,
                   nDel, nSockClose, nCleanup, nSig, nEv, retry_count,
                   backoff, last_error, response, clientGone, attempts,
                   waits, nGet>>

\* do_GET, lines 72 and 98: the client is gone, end_headers() raises
\* BrokenPipeError; the with statement closes the response.
SendHeadBroken ==
    /\ hpc = "p_69"
    /\ clientGone
    /\ response' = "closed"
    /\ hpc' = "p_99"
    /\ UNCHANGED <<serial_sock, tun, running, pc, hstack, sock, attempt,
                   rlist, readable, ret, frame_len, eth_frame, ip_packet,
                   exit, HAVE_PYTUN, nConn, openSocks, tunFd, tunIf, wire,
                   rx, peerFin, tx, tunRq, tunW, sent, nRead, nDone, got,
                   outcome, tunIn, fail, sigAt, nCreate, nDown, nTunClose,
                   nDel, nSockClose, nCleanup, nSig, nEv, retry_count,
                   backoff, last_error, client, clientGone, attempts, waits,
                   nGet>>

\* do_GET, lines 73-77: wfile.write(response.read()); return.
ForwardBody ==
    /\ hpc = "p_73"
    /\ ~clientGone
    /\ client' = Append(client, "fwd_body")
    /\ response' = "closed"
    /\ hpc' = "idle"
    /\ UNCHANGED <<serial_sock, tun, running, pc, hstack, sock, attempt,
                   rlist, readable, ret, frame_len, eth_frame, ip_packet,
                   exit, HAVE_PYTUN, nConn, openSocks, tunFd, tunIf, wire,
                   rx, peerFin, tx, tunRq, tunW, sent, nRead, nDone, got,
                   outcome, tunIn, fail, sigAt, nCreate, nDown, nTunClose,
                   nDel, nSockClose, nCleanup, nSig, nEv, retry_count,
                   backoff, last_error, clientGone, attempts, waits, nGet>>

\* do_GET, lines 73 and 98: response.read() raises (the upstream resets the
\* connection or stalls past the timeout, after its headers came).
ReadRaises ==
    /\ hpc = "p_73"
    /\ response' = "closed"
    /\ hpc' = "p_99"
    /\ UNCHANGED <<serial_sock, tun, running, pc, hstack, sock, attempt,
                   rlist, readable, ret, frame_len, eth_frame, ip_packet,
                   exit, HAVE_PYTUN, nConn, openSocks, tunFd, tunIf, wire,
                   rx, peerFin, tx, tunRq, tunW, sent, nRead, nDone, got,
                   outcome, tunIn, fail, sigAt, nCreate, nDown, nTunClose,
                   nDel, nSockClose, nCleanup, nSig, nEv, retry_count,
                   backoff, last_error, client, clientGone, attempts, waits,
                   nGet>>

\* do_GET, lines 73 and 98: the client is gone, wfile.write raises
\* BrokenPipeError.
WriteBroken ==
    /\ hpc = "p_73"
    /\ clientGone
    /\ response' = "closed"
    /\ hpc' = "p_99"
    /\ UNCHANGED <<serial_sock, tun, running, pc, hstack, sock, attempt,
                   rlist, readable, ret, frame_len, eth_frame, ip_packet,
                   exit, HAVE_PYTUN, nConn, openSocks, tunFd, tunIf, wire,
                   rx, peerFin, tx, tunRq, tunW, sent, nRead, nDone, got,
                   outcome, tunIn, fail, sigAt, nCreate, nDown, nTunClose,
                   nDel, nSockClose, nCleanup, nSig, nEv, retry_count,
                   backoff, last_error, client, clientGone, attempts, waits,
                   nGet>>

\* do_GET, lines 81-88: below MAX_RETRIES sleep(backoff), backoff *= 2,
\* retry_count += 1 and around the loop; else the error branch.
RetryOrGiveUp ==
    /\ hpc = "p_81"
    /\ waits' = IF retry_count < MAX_RETRIES THEN Append(waits, backoff) ELSE waits
    /\ backoff' = IF retry_count < MAX_RETRIES THEN backoff * 2 ELSE backoff
    /\ retry_count' = IF retry_count < MAX_RETRIES THEN retry_count + 1 ELSE retry_count
    /\ hpc' = IF retry_count < MAX_RETRIES THEN "p_65" ELSE "p_89"
    /\ UNCHANGED <<serial_sock, tun, running, pc, hstack, sock, attempt,
                   rlist, readable, ret, frame_len, eth_frame, ip_packet,
                   exit, HAVE_PYTUN, nConn, openSocks, tunFd, tunIf, wire,
                   rx, peerFin, tx, tunRq, tunW, sent, nRead, nDone, got,
                   outcome, tunIn, fail, sigAt, nCreate, nDown, nTunClose,
                   nDel, nSockClose, nCleanup, nSig, nEv, last_error,
                   response, client, clientGone, attempts, nGet>>

\* do_GET, lines 89-96: log_error; send_error(502, 'ESP32 unreachable'); a
\* BrokenPipeError of the gone client is passed over; return.
SendUnreachable ==
    /\ hpc = "p_89"
    /\ client' = IF clientGone THEN client ELSE Append(client, "502")
    /\ hpc' = "idle"
    /\ UNCHANGED <<serial_sock, tun, running, pc, hstack, sock, attempt,
                   rlist, readable, ret, frame_len, eth_frame, ip_packet,
                   exit, HAVE_PYTUN, nConn, openSocks, tunFd, tunIf, wire,
                   rx, peerFin, tx, tunRq, tunW, sent, nRead, nDone, got,
                   outcome, tunIn, fail, sigAt, nCreate, nDown, nTunClose,
                   nDel, nSockClose, nCleanup, nSig, nEv, retry_count,
                   backoff, last_error, response, clientGone, attempts,
                   waits, nGet>>

\* do_GET, lines 98-106: except Exception: log_error; send_error(502, 'Proxy
\* Error'), which writes a status line and headers of its own; a
\* BrokenPipeError of the gone client is passed over; return.
SendProxyError ==
    /\ hpc = "p_99"
    /\ client' = IF clientGone THEN client ELSE Append(client, "502")
    /\ hpc' = "idle"
    /\ UNCHANGED <<serial_sock, tun, running, pc, hstack, sock, attempt,
                   rlist, readable, ret, frame_len, eth_frame, ip_packet,
                   exit, HAVE_PYTUN, nConn, openSocks, tunFd, tunIf, wire,
                   rx, peerFin, tx, tunRq, tunW, sent, nRead, nDone, got,
                   outcome, tunIn, fail, sigAt, nCreate, nDown, nTunClose,
                   nDel, nSockClose, nCleanup, nSig, nEv, retry_count,
                   backoff, last_error, response, clientGone, attempts,
                   waits, nGet>>

\* The client of the proxy closes its connection while the request is being
\* served.
ClientDisconnects ==
    /\ hpc # "idle"
    /\ ~clientGone
    /\ clientGone' = TRUE
    /\ UNCHANGED <<serial_sock, tun, running, pc, hstack, sock, attempt,
                   rlist, readable, ret, frame_len, eth_frame, ip_packet,
                   exit, HAVE_PYTUN, nConn, openSocks, tunFd, tunIf, wire,
                   rx, peerFin, tx, tunRq, tunW, sent, nRead, nDone, got,
                   outcome, tunIn, fail, sigAt, nCreate, nDown, nTunClose,
                   nDel, nSockClose, nCleanup, nSig, nEv, hpc, retry_count,
                   backoff, last_error, response, client, attempts, waits,
                   nGet>>

\* Every step of the program, with failures and signals, the peer and the kernel
\* sending short frames and packets.
Next ==
    \/ InstallHandlers
    \/ PytunOpen
    \/ PytunOpenFails
    \/ PytunConfigure
    \/ PytunConfigureFails
    \/ PytunUp
    \/ PytunUpFails
    \/ PytunOnDeadHandle
    \/ PytunReturn
    \/ ManualOpen
    \/ ManualOpenFails
    \/ ManualIoctl
    \/ ManualIoctlFails
    \/ ManualAddr
    \/ ManualAddrFails
    \/ ManualUp
    \/ ManualUpFails
    \/ ManualWrap
    \/ CheckCreated
    \/ SetRunning
    \/ OuterLoop
    \/ ConnectOk
    \/ ConnectFails
    \/ ConnectSleep
    \/ AssignSock
    \/ TestSock
    \/ FailedToConnect
    \/ InnerLoop
    \/ BuildRlist
    \/ Select
    \/ SelectRaises
    \/ ForReadable
    \/ RecvHeader
    \/ RecvHeaderShort
    \/ RecvChunk
    \/ RecvChunkEof
    \/ RecvRaises
    \/ TunWrite
    \/ TunWriteRaises
    \/ RelayOnDeadHandle
    \/ AfterSerialToTun
    \/ CloseLostSock
    \/ DiscardSock
    \/ TunRead
    \/ TunReadRaises
    \/ SendLength
    \/ SendFrame
    \/ SendRaises
    \/ AfterTunToSerial
    \/ CheckSock
    \/ CallCleanup
    \/ Return0
    \/ Signal
    \/ CleanupStart
    \/ CleanupTestSock
    \/ CleanupCloseSock
    \/ CleanupDiscardSock
    \/ CleanupTestTun
    \/ CleanupDown
    \/ CleanupClosePytun
    \/ CleanupCloseManual
    \/ CleanupDelete
    \/ CleanupDiscardTun
    \/ CleanupNoTun
    \/ CleanupRaises
    \/ PeerSend(FewPeerLens, MaxEvents)
    \/ Arrive
    \/ PeerClose(MaxEvents)
    \/ KernelPacket(FewTunLens, MaxEvents)

Spec == Init /\ [][Next]_vars

\* The executions without failures and signals, over every frame length of PeerLens
\* and packet length of TunLens.
NextData ==
    \/ InstallHandlers
    \/ PytunOpen
    \/ PytunConfigure
    \/ PytunUp
    \/ PytunReturn
    \/ ManualOpen
    \/ ManualIoctl
    \/ ManualAddr
    \/ ManualUp
    \/ ManualWrap
    \/ CheckCreated
    \/ SetRunning
    \/ OuterLoop
    \/ ConnectOk
    \/ AssignSock
    \/ TestSock
    \/ InnerLoop
    \/ BuildRlist
    \/ Select
    \/ ForReadable
    \/ RecvHeader
    \/ RecvHeaderShort
    \/ RecvChunk
    \/ RecvChunkEof
    \/ TunWrite
    \/ AfterSerialToTun
    \/ CloseLostSock
    \/ DiscardSock
    \/ TunRead
    \/ SendLength
    \/ SendFrame
    \/ AfterTunToSerial
    \/ CheckSock
    \/ PeerSend(PeerLens, MaxDataEvents)
    \/ Arrive
    \/ PeerClose(MaxDataEvents)
    \/ KernelPacket(TunLens, MaxDataEvents)

SpecData == Init /\ [][NextData]_vars

\* The steps of the Python thread: every statement of run() and of the handlers
\* running on it, whatever its outcome. The environment's events are not among them.
Thread ==
    \/ InstallHandlers
    \/ PytunOpen
    \/ PytunOpenFails
    \/ PytunConfigure
    \/ PytunConfigureFails
    \/ PytunUp
    \/ PytunUpFails
    \/ PytunOnDeadHandle
    \/ PytunReturn
    \/ ManualOpen
    \/ ManualOpenFails
    \/ ManualIoctl
    \/ ManualIoctlFails
    \/ ManualAddr
    \/ ManualAddrFails
    \/ ManualUp
    \/ ManualUpFails
    \/ ManualWrap
    \/ CheckCreated
    \/ SetRunning
    \/ OuterLoop
    \/ ConnectOk
    \/ ConnectFails
    \/ ConnectSleep
    \/ AssignSock
    \/ TestSock
    \/ FailedToConnect
    \/ InnerLoop
    \/ BuildRlist
    \/ Select
    \/ SelectRaises
    \/ ForReadable
    \/ RecvHeader
    \/ RecvHeaderShort
    \/ RecvChunk
    \/ RecvChunkEof
    \/ RecvRaises
    \/ TunWrite
    \/ TunWriteRaises
    \/ RelayOnDeadHandle
    \/ AfterSerialToTun
    \/ CloseLostSock
    \/ DiscardSock
    \/ TunRead
    \/ TunReadRaises
    \/ SendLength
    \/ SendFrame
    \/ SendRaises
    \/ AfterTunToSerial
    \/ CheckSock
    \/ CallCleanup
    \/ Return0
    \/ CleanupStart
    \/ CleanupTestSock
    \/ CleanupCloseSock
    \/ CleanupDiscardSock
    \/ CleanupTestTun
    \/ CleanupDown
    \/ CleanupClosePytun
    \/ CleanupCloseManual
    \/ CleanupDelete
    \/ CleanupDiscardTun
    \/ CleanupNoTun
    \/ CleanupRaises

\* The interpreter keeps executing the thread: while it has a step to take, it
\* takes one. Nothing is assumed of the environment: a connect may be refused
\* every time, a signal may never come.
SpecLive == Spec /\ WF_vars(Thread)

\* The proxy: do_GET for one request after the other, with every outcome of
\* urlopen, of the reads and of the writes, and a client that may go away.
NextProxy ==
    \/ DoGet
    \/ LoopTest
    \/ UrlopenOk
    \/ UrlopenURLError
    \/ UrlopenOther
    \/ SendHead
    \/ SendHeadBroken
    \/ ForwardBody
    \/ ReadRaises
    \/ WriteBroken
    \/ RetryOrGiveUp
    \/ SendUnreachable
    \/ SendProxyError
    \/ ClientDisconnects

SpecProxy == Init /\ [][NextProxy]_vars

\* ------------------------------------------------------------- properties

\* serial_to_tun has just taken a whole frame off the stream: it stands before
\* the TUN write, or it returned after a skip, a short frame or a write.
Decoded == pc = "s2t_227" \/ outcome \in {"skip", "short", "frame"}

\* The frame taken last is the nDone-th the peer sent on this connection, and
\* the ones before it were consumed to their last byte, so that the decoder
\* started at the first byte of its length prefix.
AtBoundary ==
    /\ nDone >= 1 /\ nDone <= Len(sent)
    /\ \A j \in 1..(nDone - 1) : Len(sent[j]) <= MAX_FRAME_SIZE + ETH_HEADER_SIZE

\* What the framing decoder yields for a payload P the peer encoded as
\* len(P) (2 bytes, big-endian) followed by P: P itself, and not a skip.
RoundTrip == outcome # "skip" /\ got = sent[nDone]

\* C1, as stated: for every payload P with 0 <= len(P) <= 1500, decoding
\* encode(P) yields exactly P. The empty payload refutes it: its length
\* prefix is 0, which the decoder discards as an invalid length.
C1_RoundTripFromZero ==
    (Decoded /\ AtBoundary /\ Len(sent[nDone]) <= MAX_FRAME_SIZE) => RoundTrip

\* C1, amended: for every payload P with 1 <= len(P) <= 1500, decoding
\* encode(P) yields exactly P, however the bytes arrive at the socket.
C1_FramingRoundTrip ==
    (Decoded /\ AtBoundary /\ Len(sent[nDone]) >= 1 /\ Len(sent[nDone]) <= MAX_FRAME_SIZE)
        => RoundTrip

\* A payload of 1500 bytes, arrived in two pieces, has been decoded.
C1_Witness ==
    /\ Decoded /\ AtBoundary /\ nEv = 2 /\ Len(sent) = 1
    /\ Len(sent[nDone]) = MAX_FRAME_SIZE /\ got = sent[nDone]

\* C2: for every IP packet P with len(P) >= 14, the Ethernet frame built for
\* the serial side is 14 + len(P) bytes: destination MAC 02:00:00:00:00:02,
\* source MAC 02:00:00:00:00:01, EtherType 0x0800, then P unchanged; and
\* stripping the header of that frame gives P back.
C2_EthernetRoundTrip ==
    (pc \in {"t2s_271", "t2s_274"} /\ Len(ip_packet) >= ETH_HEADER_SIZE) =>
        /\ ip_packet = tunIn[Len(tunIn)]
        /\ Len(eth_frame) = Len(ip_packet) + 14
        /\ Take(eth_frame, 14) = <<2, 0, 0, 0, 0, 2, 2, 0, 0, 0, 0, 1, 8, 0>>
        /\ Drop(eth_frame, 14) = ip_packet
        /\ StripHeader(eth_frame) = ip_packet

\* A packet of 1500 bytes read from the TUN device stands framed, its length
\* prefix already sent.
C2_Witness ==
    /\ pc = "t2s_274" /\ Len(ip_packet) = MAX_FRAME_SIZE
    /\ Len(eth_frame) = MAX_FRAME_SIZE + ETH_HEADER_SIZE
    /\ tx = PackH(MAX_FRAME_SIZE + ETH_HEADER_SIZE)

\* The step of serial_to_tun that reads a 2-byte length prefix.
HeaderRead == pc = "s2t_182" /\ hstack = <<>> /\ Len(rx) >= 2 /\ nRead' = nRead + 2

\* The frame is dropped at its header: serial_to_tun returns True with only
\* the two bytes consumed, the socket stays open and in place, nothing is
\* written to the TUN device.
DroppedAtHeader ==
    /\ pc' = "r_336" /\ ret' = TRUE /\ outcome' = "skip"
    /\ rx' = Drop(rx, 2)
    /\ serial_sock' = serial_sock /\ openSocks' = openSocks /\ serial_sock' \in openSocks'
    /\ tunW' = tunW /\ running' = running

Deliverable(f) == Len(f) >= ETH_HEADER_SIZE /\ Len(f) <= MAX_FRAME_SIZE + ETH_HEADER_SIZE
Due == LET ok == SelectSeq(sent, Deliverable)
       IN  [i \in 1..Len(ok) |-> StripHeader(ok[i])]

\* The peer sent a frame with an invalid declared length on this connection.
SentInvalid ==
    \E j \in 1..Len(sent) : Len(sent[j]) = 0 \/ Len(sent[j]) > MAX_FRAME_SIZE + ETH_HEADER_SIZE

\* The bridge waits for input with nothing left to consume: in select, or in
\* the recv of the payload loop, the socket buffer and the wire empty.
Drained ==
    /\ pc \in {"r_332", "s2t_195"} /\ hstack = <<>>
    /\ rx = <<>> /\ wire = <<>> /\ ~peerFin /\ SockUsable

\* C4: after a frame with an invalid length has been dropped, the same
\* connection stays usable: every valid frame the peer sends afterwards is
\* decoded at its boundary and its IP packet delivered intact. Refuted: the
\* payload of an over-long frame stays in the stream and is parsed as frames.
C4_UsableAfterDrop ==
    (SentInvalid /\ Drained) => tunW = Due

\* C5: a frame with 1 <= L < 14 is read in full and rejected: serial_to_tun
\* raises nothing and reports "continue", nothing is written to the TUN
\* device, and the bridge goes on in Bridging with the same socket.
C5_ShortFrameDropped ==
    [][ /\ (pc = "s2t_195" /\ hstack = <<>> /\ frame_len < 14 /\ nDone' = nDone + 1)
            => /\ frame_len >= 1 /\ nRead' = nRead + ChunkLen(frame_len, eth_frame, rx)
               /\ Len(eth_frame) + ChunkLen(frame_len, eth_frame, rx) = frame_len
               /\ pc' = "r_336" /\ ret' = TRUE /\ outcome' = "short"
               /\ tunW' = tunW /\ running' = running
               /\ serial_sock' = serial_sock /\ openSocks' = openSocks
        /\ (pc = "r_336" /\ hstack = <<>> /\ outcome = "short" /\ pc' # pc)
            => /\ pc' = "r_334" /\ StateAt(pc') = "Bridging"
               /\ serial_sock' = serial_sock /\ openSocks' = openSocks
               /\ tunW' = tunW /\ running' = running
      ]_vars

\* A 13-byte frame has been read in full and rejected; the loop goes on.
C5_Witness ==
    /\ pc = "r_334" /\ outcome = "short" /\ frame_len = 13 /\ nRead = 15 /\ ret
    /\ SockUsable /\ tunW = <<>> /\ running

\* Positions of the bridging loop up to the end of a relay operation.
RelayPcs == {"r_329", "r_331", "r_332", "r_334", "s2t_182", "s2t_195", "s2t_227",
             "t2s_239", "t2s_271", "t2s_274"}

\* C6: when the serial connection is lost during Bridging (the peer closes,
\* or a read fails, also in the middle of a frame), the bridge closes and
\* discards the socket, goes to reconnect, and after the next successful
\* connect is back in Bridging; however often this happens the TUN device is
\* created only once and the same handle stays in use.
C6_ReconnectKeepsTun ==
    /\ nCreate <= 1
    /\ (nSig = 0 /\ fail \in {"serial_eof", "serial_read"}) =>
          /\ running /\ exit = "none" /\ pc \notin ShutdownPcs
          /\ nCreate = 1 /\ tun = TunRef /\ tunFd = "open"
          /\ pc \in {"r_316", "cs_163", "cs_172"} =>
                 serial_sock = None /\ openSocks = {} /\ nSockClose = nConn
          /\ pc \in RelayPcs => serial_sock = nConn /\ SockUsable
          /\ pc \in {"r_342", "r_352"} => openSocks \subseteq {serial_sock}

\* After the peer's close in the middle of a frame the bridge is back in
\* Bridging on a second socket, with the TUN device it created at start.
C6_Witness ==
    /\ pc = "r_332" /\ nSig = 0 /\ fail = "serial_eof" /\ nConn = 2
    /\ serial_sock = 2 /\ openSocks = {2} /\ nSockClose = 1
    /\ nCreate = 1 /\ tun = TunRef /\ tunFd = "open"

\* C7: a single signal delivered during Bridging (in the readiness wait,
\* between statements of the loop, or inside a relay operation) ends with the
\* TUN device torn down exactly once, every socket closed exactly once, and
\* nothing left open when run() ends.
C7_SignalInBridging ==
    (pc = "done" /\ nSig = 1 /\ sigAt \in BridgingPcs) =>
        /\ openSocks = {} /\ serial_sock = None /\ nSockClose = nConn
        /\ tun = None /\ tunFd = "closed" /\ tunIf = "absent" /\ nTunClose = 1
        /\ IF HAVE_PYTUN THEN nDown = 1 /\ nDel = 0 ELSE nDown = 0 /\ nDel = 1

\* run() has ended after a signal that arrived inside the payload loop of
\* serial_to_tun.
C7_Witness ==
    /\ pc = "done" /\ nSig = 1 /\ sigAt = "s2t_195"
    /\ openSocks = {} /\ tunFd = "closed" /\ nTunClose = 1 /\ nSockClose = nConn

\* C8: every failure of the serial endpoint during Bridging - a closed
\* connection, a receive error, a send error - is a connection loss: the
\* bridge goes to reconnect and does not shut down. Refuted: a failing send
\* makes tun_to_serial return False, which run() takes for a TUN error.
C8_SerialFailureReconnects ==
    (nSig = 0 /\ fail \in {"serial_eof", "serial_read", "serial_write"}) =>
        running /\ pc \notin ShutdownPcs

\* C9: every failure of the TUN endpoint during Bridging - a read or a write
\* on the device - is fatal: once its result is handled the bridge shuts down,
\* it neither reconnects nor relays on. Refuted: a failing write makes
\* serial_to_tun return False, which run() takes for a lost connection.
C9_TunFailureFatal ==
    (nSig = 0 /\ fail \in {"tun_read", "tun_write"} /\ pc \notin {"r_336", "r_346"}) =>
        ~running /\ pc \in {"r_352", "r_329", "r_316"} \cup ShutdownPcs

\* The exit status of the process: what run() returned, 1 for an exception
\* that left run().
ExitStatus == CASE exit = "0" -> 0 [] exit = "1" -> 1 [] exit = "exc" -> 1 [] OTHER -> 0 - 1

\* C10: run() ends with status 0 exactly when the shutdown was the clean one
\* a signal triggers, and with a non-zero status when the TUN device could not
\* be created (the bridge then never connected) or when the loop ended on a
\* fatal TUN failure. Refuted: after a fatal TUN failure run() returns 0.
C10_ExitStatus ==
    pc = "done" =>
        /\ ExitStatus = 0 => nSig > 0
        /\ (nSig = 0 /\ fail \in {"tun_read", "tun_write"}) => ExitStatus # 0
        /\ fail = "tun_create" => ExitStatus = 1 /\ nConn = 0

\* C11: from any state, a signal eventually leads to ShuttingDown and to
\* run() returning, even if the serial endpoint refuses every connect.
\* Refuted: connect_to_serial retries in a while True that never looks at
\* running, so a signal during the connect loop closes everything and the
\* loop goes on for as long as the endpoint refuses.
C11_SignalEndsRun == (nSig > 0) ~> (pc = "done")

\* C12: in every execution of run() that reaches shutdown, cleanup is executed
\* exactly once, whatever the state the signal arrived in. Refuted: the handler
\* runs cleanup() and run() runs it again at line 355.
C12_CleanupOnce ==
    (pc = "done" /\ nSig = 1) => nCleanup = 1

\* C13: once a signal has triggered the shutdown (cleanup has started), the
\* bridge never again creates a TUN device, connects the serial socket, sets
\* running back to true or relays a frame. Refuted: a signal during
\* Initializing is forgotten when line 313 sets running = True.
C13_ShutdownTerminal ==
    [][(nSig > 0 /\ nCleanup > 0) =>
          /\ nCreate' = nCreate /\ nConn' = nConn
          /\ (running' => running)
          /\ tunW' = tunW /\ tx' = tx]_vars

\* A signal handler is running: some cleanup frame other than the call of
\* line 355.
InHandler == hstack # <<>> /\ ~(pc = "r_355w" /\ Len(hstack) = 1)

\* C14: the signal handler changes only the running flag and leaves the
\* serial socket and the TUN handle untouched; they are closed only by the
\* main loop after it has seen the flag. Refuted: the handler is cleanup().
C14_HandlerOnlySetsFlag ==
    [][InHandler =>
          /\ serial_sock' = serial_sock /\ openSocks' = openSocks
          /\ tun' = tun /\ tunFd' = tunFd /\ tunIf' = tunIf]_vars

\* C15: under every interleaving of a signal with the loop of run(), one
\* signal or none (more are not needed to refute it), no error
\* leaves run() uncaught: run() returns. Refuted: after the handler has run,
\* select is called on None or on closed handles, and raises.
C15_NoUncaughtError == (nSig <= 1) => exit # "exc"

\* The steps of the connect part of C16: what connect_to_serial returns is a
\* socket just connected; the loop at lines 160-176 is left only by that
\* return; the main thread, left to itself, stays inside it until then.
ConnectReturns ==
    /\ (pc' = "r_318" /\ pc # "r_318") =>
          sock' # None /\ sock' = nConn' /\ sock' \in openSocks' /\ nConn' = nConn + 1
    /\ (pc \in {"cs_163", "cs_172"} /\ hstack = <<>>) =>
          pc' \in {"cs_163", "cs_172", "r_318"}
    /\ pc = "r_318" => sock \in openSocks

C17_ManualStepFailureAborts ==
    (pc = "r_309" /\ ~HAVE_PYTUN /\ nSig = 0 /\ fail \in {"tun_create", "tun_addr"}) =>
        ret = FALSE /\ tun = None /\ tunFd # "open"

\* C18: every path on which run() ends has passed through cleanup, so no TUN
\* handle opened during a failed creation is open at the end. Refuted: after
\* a failed creation run() returns 1 at line 311 without cleanup, and the
\* pytun device created before the failing step stays open.
C18_CleanupBeforeExit ==
    pc = "done" => nCleanup >= 1 /\ tunFd # "open"

\* The positions of a cleanup that has not found a socket or a device to
\* close: before its tests (286, 288, 292) and at the last assignment (300).
SkippingPcs == {"c_286", "c_288", "c_292", "c_300"}

AllSkipping(st) == \A i \in 1..Len(st) : st[i] \in SkippingPcs

\* C19: cleanup invoked when the socket and the device are already gone, or
\* never existed, closes nothing, brings nothing down, deletes nothing, raises
\* nothing and leaves the state as it is: running false, no socket, no device.
C19_TeardownIdempotent ==
    [][(hstack # <<>> /\ AllSkipping(hstack) /\ serial_sock = None /\ tun = None) =>
          /\ serial_sock' = None /\ tun' = None /\ (running' => running)
          /\ openSocks' = openSocks /\ tunFd' = tunFd /\ tunIf' = tunIf
          /\ nSockClose' = nSockClose /\ nDown' = nDown
          /\ nTunClose' = nTunClose /\ nDel' = nDel
          /\ AllSkipping(hstack') /\ exit' = exit
          /\ (pc' = pc \/ (pc = "r_355w" /\ Len(hstack) = 1 /\ pc' = "r_356"))]_vars

\* The cleanup of line 355 has run to its end after a handler's cleanup had
\* closed the socket and the device: the second one changed nothing.
C19_Witness ==
    /\ pc = "r_356" /\ nCleanup = 2 /\ nSig = 1 /\ ~running
    /\ serial_sock = None /\ tun = None /\ openSocks = {} /\ tunFd = "closed"
    /\ nConn = 1 /\ nSockClose = 1 /\ nTunClose = 1

\* C20: for every valid frame received, of declared length L with
\* 14 <= L <= 1514, serial_to_tun writes to the TUN device exactly once,
\* exactly the L - 14 bytes of the frame from offset 14 on, and returns True.
C20_OneWritePerFrame ==
    (outcome = "frame" /\ AtBoundary) =>
        /\ ret = TRUE
        /\ Len(sent[nDone]) >= 14 /\ Len(sent[nDone]) <= 1514
        /\ Len(tunW) = Len(SelectSeq(SubSeq(sent, 1, nDone), Deliverable))
        /\ Len(tunW[Len(tunW)]) = Len(sent[nDone]) - 14
        /\ tunW[Len(tunW)] = Drop(sent[nDone], 14)

\* A 20-byte frame has produced one write of its last 6 bytes.
C20_Witness ==
    /\ outcome = "frame" /\ ret /\ nDone = 1 /\ Len(sent) = 1 /\ Len(sent[1]) = 20
    /\ Len(tunW) = 1 /\ Len(tunW[1]) = 6 /\ tunW[1] = Drop(sent[1], 14)

\* serial_to_tun is inside its payload loop (line 194), reading the frame
\* after the nDone the peer's stream has yielded so far, and it started at
\* the first byte of that frame's length prefix.
InFrame ==
    /\ pc = "s2t_195" /\ nDone < Len(sent)
    /\ \A j \in 1..nDone : Len(sent[j]) <= MAX_FRAME_SIZE + ETH_HEADER_SIZE

\* The TUN writes a connection owes to the frames consumed on it so far.
WritesDue == Len(SelectSeq(SubSeq(sent, 1, nDone), Deliverable))

\* C21: the payload loop accumulates across partial reads: whatever pieces
\* the socket returns, the bytes gathered are the frame's first bytes in
\* order, and the finished frame is the frame sent; a recv(2) that returns
\* fewer than 2 bytes, or an empty recv before the declared length is
\* reached, makes serial_to_tun return False with nothing written to the TUN
\* device for it.
C21_PartialReads ==
    /\ InFrame =>
          /\ frame_len = Len(sent[nDone + 1])
          /\ Len(eth_frame) < frame_len
          /\ eth_frame = Take(sent[nDone + 1], Len(eth_frame))
    /\ (pc = "s2t_227" /\ AtBoundary) => eth_frame = sent[nDone]
    /\ (pc = "r_336" /\ outcome = "lost") =>
          /\ ret = FALSE
          /\ fail = "serial_eof"
          /\ AtBoundary \/ nDone = 0 => Len(tunW) <= WritesDue

\* A 20-byte frame arrived in two pieces and the peer closed after the first:
\* 7 payload bytes were gathered, the next recv returned b'', and
\* serial_to_tun returned False with nothing written.
C21_Witness ==
    /\ pc = "r_336" /\ outcome = "lost" /\ ~ret
    /\ Len(sent) = 1 /\ Len(sent[1]) = 20 /\ nRead = 9 /\ nDone = 0
    /\ tunW = <<>>


\* The last n bytes of the byte string s.
Last(s, n) == Drop(s, Len(s) - n)

\* C22: every frame tun_to_serial sends declares as its length the number of
\* bytes that follow the prefix, which is 14 + len(packet) for a packet of 1
\* to 1500 bytes read from the TUN device, so at most 1514 and within 16
\* bits; an empty read sends nothing; and the declared length passes the
\* length check of serial_to_tun (lines 188-190).
C22_SentFrameLength ==
    [][/\ (pc = "t2s_274" /\ pc' = "r_346" /\ outcome' = "t_sent") =>
             LET n == Len(tunIn[Len(tunIn)])
                 f == Last(tx', n + ETH_HEADER_SIZE + 2)
                 declared == UnpackH(Take(f, 2))
             IN  /\ n >= 1 /\ n <= MAX_FRAME_SIZE
                 /\ Len(tx') >= n + ETH_HEADER_SIZE + 2
                 /\ declared = Len(Drop(f, 2))
                 /\ declared = ETH_HEADER_SIZE + n
                 /\ declared <= 1514 /\ declared < 65536
                 /\ Drop(f, 2 + ETH_HEADER_SIZE) = tunIn[Len(tunIn)]
                 /\ ~InvalidLen(declared)
       /\ (pc = "t2s_239" /\ pc' = "r_346" /\ outcome' = "t_empty") =>
             tunIn'[Len(tunIn')] = <<>> /\ tx' = tx
       /\ (pc = "t2s_239" /\ tunIn' # tunIn /\ tunIn'[Len(tunIn')] = <<>>) =>
             pc' = "r_346" /\ outcome' = "t_empty" /\ ret' = TRUE]_vars

\* A packet of 1500 bytes has gone out as one frame: the prefix 0x05 0xEA
\* (1514) and 1514 bytes after it.
C22_Witness ==
    /\ pc = "r_346" /\ outcome = "t_sent" /\ ret
    /\ Len(tunIn[Len(tunIn)]) = MAX_FRAME_SIZE
    /\ Len(tx) = 1516 /\ tx[1] = 5 /\ tx[2] = 234

\* A step of cleanup's TUN part (lines 292-299): down(), close() or ip link
\* delete.
TunTeardownStep ==
    /\ hstack # <<>>
    /\ \/ nDown' # nDown \/ nTunClose' # nTunClose \/ nDel' # nDel
       \/ tunFd' # tunFd \/ tunIf' # tunIf

OperationPcs == {"r_332", "s2t_182", "s2t_195", "s2t_227", "t2s_239", "t2s_271",
                 "t2s_274"}

\* C24: without signals, the readiness wait and every relay operation of the
\* inner loop run with the socket connect_to_serial returned last, not None
\* and not closed by the bridge, and with the TUN handle; once the socket is
\* discarded after a lost connection nothing select() had reported is still
\* pending, and the thread is on its way to connect_to_serial or to the end.
C24_HandlesValidInLoop ==
    nSig = 0 =>
        /\ pc \in OperationPcs =>
              /\ serial_sock # None /\ serial_sock = nConn /\ serial_sock \in openSocks
              /\ tun = TunRef /\ tunFd = "open"
        /\ pc = "r_332" => rlist = <<serial_sock, tun>>
        /\ (serial_sock = None /\ nConn >= 1 /\ pc \notin {"r_318", "r_355w", "r_356", "done"}) =>
              /\ readable = <<>>
              /\ pc \in {"r_352", "r_316", "cs_163", "cs_172", "r_355"}

\* The peer closed while a packet waited on the TUN device: select() reported
\* both, serial_to_tun returned False, the socket is discarded and the packet
\* is left for after the reconnect.
C24_Witness ==
    /\ nSig = 0 /\ pc = "r_352" /\ serial_sock = None /\ nConn = 1 /\ openSocks = {}
    /\ outcome = "lost" /\ tunRq # <<>> /\ readable = <<>> /\ tun = TunRef

\* do_GET has returned.
Returned == hpc = "idle" /\ nGet >= 1

\* The responses that reached the client: status lines, the forwarded one or
\* that of send_error.
Responses(c) == Len(SelectSeq(c, LAMBDA x : x \in {"fwd_head", "502"}))

\* The i-th wait is INITIAL_BACKOFF doubled i - 1 times.
Doubling(w) == \A i \in 1..Len(w) : w[i] = INITIAL_BACKOFF * 2 ^ (i - 1)

\* C25: for every GET, do_GET calls urlopen at most MAX_RETRIES + 1 = 6
\* times, sleeps 0.5 s after the first failed attempt and twice the last wait
\* after each further one, returns, and has by then sent exactly one
\* response to a client that is still there: the upstream's, or a 502.
\* Refuted: when response.read() raises after the forwarded status line and
\* headers went out, the handler of line 98 sends a 502 after them.
C25_ProxyRetry ==
    /\ attempts <= MAX_RETRIES + 1
    /\ Doubling(waits) /\ Len(waits) <= MAX_RETRIES
    /\ (Returned /\ ~clientGone) =>
          /\ Responses(client) = 1
          /\ client \in {<<"fwd_head", "fwd_body">>, <<"502">>}

====
